---- MODULE Spec2Model ----
(***************************************************************************)
(* T7: the arena ("static") allocator of libt7/src/static-allocator.c and  *)
(* the failure-simulation harness of libt7/src/tls.c (simulate_failure,    *)
(* repeat_test), as state machines.                                        *)
(*                                                                         *)
(* Arena: the buffer is an array of size_t words; node headers live       *)
(* inside the buffer as words (size | allocated-bit), exactly as the C     *)
(* code keeps them, so a header written by a split overwrites the payload  *)
(* word that was there and stale headers stay behind in merged nodes.      *)
(* Pointers are byte offsets from map->buffer.  The builds differ in       *)
(* NDEBUG (assertions and debug fills) and _WIN32 (memory primitives).     *)
(***************************************************************************)
EXTENDS Integers, Sequences, FiniteSets, TLC

VARIABLES
    mem,        \* map->buffer, one cell per size_t word: cell k is the
                \* word at byte offset k * sizeof(size_t)
    size,       \* map->size
    start,      \* map->start, as an offset from map->buffer
    ndebug,     \* TRUE when the library is built with NDEBUG
    win32,      \* build flag: _WIN32 (WIN32) is defined
    live,       \* pointers the caller currently holds (grabbed, not released)
    last,       \* the last call made on the arena: [op, p, n, res], and
                \* from, the value map->start had when it was made
    calls,      \* number of calls made on the arena so far
    limit,      \* number of calls the caller makes in this run
    cyc,        \* test_allocator () of t-allocator.c: [pos, p1, p2, count,
                \* first], pos 0 when it is not running or an assert of it
                \* failed, first the position a round starts at
    step,       \* how many calls of the test's main () the calls made so far
                \* have followed, -1 once they left it
    frame,      \* repeat_test's local test_frame: [triggered, count, simulate]
    active,     \* the thread's active frame pointer: "NULL", "frame" (the
                \* frame of the outermost repeat_test) or "inner" (the frame
                \* of a repeat_test called by a test function)
    old,        \* repeat_test's saved previous frame pointer
    pc,         \* position of the thread inside repeat_test
    fn,         \* the test function handed to repeat_test
    outs,       \* results of the simulate_failure calls of this execution
    runs,       \* outs of every finished execution of this repeat_test, in order
    ok,         \* repeat_test's local ok: result of the last execution
    stack,      \* the repeat_test calls suspended in a call of repeat_test:
                \* their [frame, old, fn, outs, runs, ok]
    outside,    \* results of the simulate_failure calls the thread made
                \* outside repeat_test
    heap,       \* the system heap: the size of every block, 0 for a block
                \* that is not allocated
    flast,      \* the last call made on the faulty allocator: [op, p, n,
                \* res], sys the system heap function it called, seq the
                \* parity of the number of calls
    reg,        \* allocator.c: the static variables initialized and head,
                \* tail (in node, with every allocator object), the mutex
                \* of the critical section (lock), the get_allocator call
                \* of each thread (call), the state of the process
                \* (phase), the cursor of cleanup (cur), and a record of
                \* what was constructed, handed out and destroyed
    fx,         \* the fixtures: the build (threads), the pointer active of
                \* the build without threads, the slot of the fixture key
                \* of every thread, the fixture each thread has set, the
                \* allocator type that gave each block, and the last
                \* call of allocate_memory, resize_memory or free_memory
    cs,         \* the critical section: the build (threads), the once
                \* control and the recursive mutex of enter_critical
                \* (owner and lock count), the shared counter, and for
                \* every thread its program, its position in it, the
                \* value it read and its nesting of enter_critical
    xh,         \* exit-handler.c: the table handlers with count, the flag
                \* initialized, the mutex of enter_protected, the number
                \* of times run_exit_handlers is registered with atexit,
                \* the exit_handler call of each thread, and the
                \* functions invoked at exit, in order
    th          \* the threads of the build with pthreads, each with the
                \* locals of its repeat_test, its slot of the frame key
                \* (active) and what its creator had when it was started

arenaVars == <<mem, size, start, ndebug, win32, live, last, calls, limit,
               cyc, step>>
harnessVars == <<frame, active, old, pc, fn, outs, runs, ok, stack, outside>>
faultyVars == <<heap, flast>>
threadVars == <<th>>
registryVars == <<reg>>
fixtureVars == <<fx>>
criticalVars == <<cs>>
exitVars == <<xh>>
libVars == <<faultyVars, threadVars, registryVars, fixtureVars, criticalVars,
             exitVars>>
notFaulty == <<arenaVars, threadVars, registryVars, fixtureVars, criticalVars,
               exitVars>>
notThread == <<arenaVars, harnessVars, faultyVars, registryVars, fixtureVars,
               criticalVars, exitVars>>
notRegistry == <<arenaVars, harnessVars, faultyVars, threadVars, fixtureVars,
                 criticalVars, exitVars>>
notMemory == <<arenaVars, harnessVars, flast, threadVars, registryVars,
               criticalVars, exitVars>>
notCritical == <<arenaVars, harnessVars, faultyVars, threadVars, registryVars,
                 fixtureVars, exitVars>>
notExit == <<arenaVars, harnessVars, faultyVars, threadVars, registryVars,
             fixtureVars, criticalVars>>
vars == <<mem, size, start, ndebug, win32, live, last, calls, limit, cyc,
          step,
          frame, active, old, pc, fn, outs, runs, ok, stack, outside,
          heap, flast, th, reg, fx, cs, xh>>

----------------------------------------------------------------------------
(* Bounds of the model *)

\* The arena buffer holds 16 * BufUnits bytes.
BufUnits == 3

\* The caller makes at most MaxOps calls on one arena.
MaxOps == 5

----------------------------------------------------------------------------
(* Program constants *)

\* sizeof(struct static_node) on a 64-bit platform
HeaderSize == 8

\* The null pointer (offsets from map->buffer are >= 0)
NULL == -1

\* Stands for "the call never returned" where a C return value is expected
DIVERGED == -2

Min(a, b) == IF a < b THEN a ELSE b

----------------------------------------------------------------------------
(* Raw memory.  Every access the allocator makes is to whole, aligned     *)
(* size_t words (headers and payloads start and end on multiples of 8), so *)
(* the buffer is kept word by word; offsets stay byte offsets as in the C. *)

\* Word values from here on stand for words that are not node sizes.
Huge == 16777216

\* The word each byte of which is c; it is even exactly when c is
ByteWord(c) == IF c = 0 THEN 0 ELSE Huge + c

\* Read the size_t at byte offset a.
ReadWord(m, a) == m[a \div HeaderSize]

\* Store the size_t w at byte offset a.
WriteWord(m, a, w) == [m EXCEPT ![a \div HeaderSize] = w]

\* fill_memory(p, c, n)
fill_memory(m, p, c, n) ==
    [k \in DOMAIN m |->
        IF k * HeaderSize >= p /\ k * HeaderSize < p + n
        THEN ByteWord(c) ELSE m[k]]

\* What a read through a pointer that was made from a size can give: a
\* memory fault, or bytes that are not the caller's
Fault == 256
WildReads == {Fault, 0, 255}

\* copy_memory(q, p, n): [mem, ok].  Without _WIN32 it is memcpy(q, p, n).
\* With _WIN32 it is CopyMemory(q, n, n), which reads its n bytes at the
\* address n: wild is what that read gives (a fault, or a byte value
\* that the whole copy then holds).
copy_memory(m, q, p, n, env) ==
    IF ~(p + n <= q \/ q + n <= p \/ p = q) THEN [mem |-> m, ok |-> FALSE]
    ELSE IF ~env.win32
    THEN [mem |-> [k \in DOMAIN m |->
                     IF k * HeaderSize >= q /\ k * HeaderSize < q + n
                     THEN m[k + (p - q) \div HeaderSize] ELSE m[k]],
          ok |-> TRUE]
    ELSE IF n = 0 THEN [mem |-> m, ok |-> TRUE]
    ELSE IF env.wild = Fault THEN [mem |-> m, ok |-> FALSE]
    ELSE [mem |-> fill_memory(m, q, env.wild, n), ok |-> TRUE]

\* node->size & ~1u
SizeBits(w) == w - (w % 2)

----------------------------------------------------------------------------
(* static-allocator.c: internal functions.  A function that changes the    *)
(* arena returns the changed memory and start cursor together with its C   *)
(* return value; ok is FALSE when one of its assertions failed (or, where  *)
(* the C code has no assertion, when it would read outside the buffer).    *)

\* Round the size up to ensure proper alignment and room for a node header.
\* (n + 7u) & ~7u is n + 7 with its three low bits cleared.
SIZE_MAX == -1

\* a < b on size_t values.  A value of the upper half of the range of
\* size_t is held as the value minus 2^w, w the width of size_t (SIZE_MAX
\* is -1), so that sums and differences wrap as the unsigned ones do.
ULess(a, b) == IF (a < 0) = (b < 0) THEN a < b ELSE b < 0

\* roundup without its assertions.  For n within 7 of SIZE_MAX the sum
\* n + 7u wraps to 0..6 and the mask leaves 0, whatever the width of ~7u.
roundup(n) ==
    IF ULess(n, HeaderSize)
    THEN HeaderSize * 2
    ELSE HeaderSize + ((n + 7) - ((n + 7) % 8))

\* The assertions of roundup
roundup_ok(n) ==
    /\ ~ULess(roundup(n), n)
    /\ ULess(HeaderSize, roundup(n))
    /\ roundup(n) % 2 = 0

\* A header can be read at offset node of a buffer of sz bytes.
InBuffer(sz, node) == node >= 0 /\ node + HeaderSize <= sz

\* Returns true if node is free
is_free(m, node) == ReadWord(m, node) % 2 = 0

\* MergeLoop that merges nothing
MergeLoopNone(m, sz, node, nodesize) == <<nodesize, TRUE>>

\* MergeLoop without the test of the next node's allocation flag
RECURSIVE MergeLoopThroughAllocated(_, _, _, _)
MergeLoopThroughAllocated(m, sz, node, nodesize) ==
    LET next == node + nodesize IN
    IF next = sz THEN <<nodesize, TRUE>>
    ELSE IF ~InBuffer(sz, next) THEN <<nodesize, FALSE>>
    ELSE IF SizeBits(ReadWord(m, next)) < HeaderSize THEN <<nodesize, FALSE>>
    ELSE MergeLoopThroughAllocated(m, sz, node,
                                   nodesize + SizeBits(ReadWord(m, next)))

\* The loop shared by get_size and static_resize_memory: starting with a
\* node of nodesize bytes, include every immediately following free node.
\* Yields <<nodesize, ok>>.
RECURSIVE MergeLoop(_, _, _, _)
MergeLoop(m, sz, node, nodesize) ==
    LET next == node + nodesize IN
    IF next = sz THEN <<nodesize, TRUE>>
    ELSE IF ~InBuffer(sz, next) THEN <<nodesize, FALSE>>
    ELSE IF ReadWord(m, next) % 2 # 0 THEN <<nodesize, TRUE>>
    ELSE IF ReadWord(m, next) < HeaderSize THEN <<nodesize, FALSE>>
    ELSE MergeLoop(m, sz, node, nodesize + ReadWord(m, next))

\* get_size without the lines that move start off a merged node
get_size_keep_start(m, sz, st, node) ==
    LET w == ReadWord(m, node)
        pre == /\ InBuffer(sz, node)
               /\ w >= HeaderSize
               /\ node + SizeBits(w) <= sz
    IN
    IF ~pre THEN [mem |-> m, start |-> st, res |-> 0, ok |-> FALSE]
    ELSE IF w % 2 # 0
    THEN [mem |-> m, start |-> st, res |-> w - 1, ok |-> TRUE]
    ELSE
        LET merged == MergeLoop(m, sz, node, w)
        IN [mem |-> WriteWord(m, node, merged[1]), start |-> st,
            res |-> merged[1], ok |-> merged[2]]

\* Get size of node; a free node is first merged with the free nodes that
\* follow it, and start is moved off a node that was merged away.
get_size(m, sz, st, node) ==
    LET w == ReadWord(m, node)
        pre == /\ InBuffer(sz, node)
               /\ w >= HeaderSize
               /\ node + SizeBits(w) <= sz
    IN
    IF ~pre THEN [mem |-> m, start |-> st, res |-> 0, ok |-> FALSE]
    ELSE IF w % 2 # 0
    THEN [mem |-> m, start |-> st, res |-> w - 1, ok |-> TRUE]
    ELSE
        LET merged == MergeLoop(m, sz, node, w)
            nodesize == merged[1]
            next == node + nodesize
            newstart == IF node < st /\ st < next
                        THEN (IF next # sz THEN next ELSE 0)
                        ELSE st
        IN [mem |-> WriteWord(m, node, nodesize), start |-> newstart,
            res |-> nodesize, ok |-> merged[2]]

\* get_successor without the wrap from the last node to the first
get_successor_stay(m, sz, node) ==
    LET next == node + SizeBits(ReadWord(m, node))
    IN IF next = sz THEN node ELSE next

\* Get next node, wrapping from the last node to the first
get_successor(m, sz, node) ==
    LET next == node + SizeBits(ReadWord(m, node))
    IN IF next = sz THEN 0 ELSE next

\* The assertions of get_successor
get_successor_ok(m, sz, node) ==
    /\ InBuffer(sz, node)
    /\ SizeBits(ReadWord(m, node)) >= HeaderSize
    /\ node + SizeBits(ReadWord(m, node)) <= sz

\* allocate_node without "next->size = nodesize - new_size"
allocate_node_no_remainder(m, sz, node, new_size) ==
    LET nodesize == ReadWord(m, node)
        pre == /\ node >= 0 /\ node + HeaderSize < sz
               /\ nodesize % 2 = 0
               /\ nodesize >= HeaderSize
               /\ node + nodesize <= sz
               /\ new_size >= HeaderSize
               /\ new_size <= nodesize
    IN
    IF ~pre THEN [mem |-> m, start |-> node, res |-> NULL, ok |-> FALSE]
    ELSE IF new_size < nodesize
    THEN [mem |-> WriteWord(m, node, new_size + 1),
          start |-> node, res |-> node + HeaderSize, ok |-> TRUE]
    ELSE [mem |-> WriteWord(m, node, nodesize + 1),
          start |-> node, res |-> node + HeaderSize, ok |-> TRUE]

\* allocate_node that starts the next search behind the allocated bytes
allocate_node_start_behind(m, sz, node, new_size) ==
    LET nodesize == ReadWord(m, node)
        pre == /\ node >= 0 /\ node + HeaderSize < sz
               /\ nodesize % 2 = 0
               /\ nodesize >= HeaderSize
               /\ node + nodesize <= sz
               /\ new_size >= HeaderSize
               /\ new_size <= nodesize
        next == node + new_size
    IN
    IF ~pre THEN [mem |-> m, start |-> node, res |-> NULL, ok |-> FALSE]
    ELSE IF new_size < nodesize
    THEN [mem |-> WriteWord(WriteWord(m, node, new_size + 1),
                            next, nodesize - new_size),
          start |-> next,
          res |-> node + HeaderSize,
          ok |-> next < sz /\ nodesize - new_size >= HeaderSize]
    ELSE [mem |-> WriteWord(m, node, nodesize + 1),
          start |-> next,
          res |-> node + HeaderSize,
          ok |-> TRUE]

\* Allocate new_size bytes from the free node, splitting off the excess
allocate_node(m, sz, node, new_size) ==
    LET nodesize == ReadWord(m, node)
        pre == /\ node >= 0 /\ node + HeaderSize < sz
               /\ nodesize % 2 = 0
               /\ nodesize >= HeaderSize
               /\ node + nodesize <= sz
               /\ new_size >= HeaderSize
               /\ new_size <= nodesize
        next == node + new_size
    IN
    IF ~pre THEN [mem |-> m, start |-> node, res |-> NULL, ok |-> FALSE]
    ELSE IF new_size < nodesize
    THEN [mem |-> WriteWord(WriteWord(m, node, new_size + 1),
                            next, nodesize - new_size),
          start |-> node,
          res |-> node + HeaderSize,
          ok |-> next < sz /\ nodesize - new_size >= HeaderSize]
    ELSE [mem |-> WriteWord(m, node, nodesize + 1),
          start |-> node,
          res |-> node + HeaderSize,
          ok |-> TRUE]

\* The do-while loop of static_grab_memory, entered at node.  fuel counts
\* the iterations left before the loop is reported as not ending (res is
\* then DIVERGED): a loop that ends visits each node at most once.
RECURSIVE grab_loop(_, _, _, _, _, _)
grab_loop(m, sz, st, node, new_size, fuel) ==
    IF fuel = 0
    THEN [mem |-> m, start |-> st, res |-> DIVERGED, ok |-> TRUE, left |-> 0]
    ELSE IF ~InBuffer(sz, node)
    THEN [mem |-> m, start |-> st, res |-> NULL, ok |-> FALSE, left |-> fuel]
    ELSE
        LET free == is_free(m, node)
            g == IF free THEN get_size(m, sz, st, node)
                 ELSE [mem |-> m, start |-> st, res |-> 0, ok |-> TRUE]
        IN
        IF ~g.ok
        THEN [mem |-> g.mem, start |-> g.start, res |-> NULL, ok |-> FALSE,
              left |-> fuel]
        ELSE IF free /\ new_size <= g.res
        THEN LET a == allocate_node(g.mem, sz, node, new_size)
             IN [mem |-> a.mem, start |-> a.start, res |-> a.res, ok |-> a.ok,
                 left |-> fuel]
        ELSE IF ~get_successor_ok(g.mem, sz, node)
        THEN [mem |-> g.mem, start |-> g.start, res |-> NULL, ok |-> FALSE,
              left |-> fuel]
        ELSE
            LET next == get_successor(g.mem, sz, node) IN
            IF next = g.start
            THEN [mem |-> g.mem, start |-> g.start, res |-> NULL, ok |-> TRUE,
                  left |-> fuel]
            ELSE grab_loop(g.mem, sz, g.start, next, new_size, fuel - 1)

\* The iterations grab_loop is given before it is reported as not ending
GrabFuel(sz) == sz \div HeaderSize + 1

\* Allocate memory from static allocator
static_grab_memory(m, sz, st, n) ==
    grab_loop(m, sz, st, st, roundup(n), GrabFuel(sz))

\* static_release_memory that always starts the next search from the node
static_release_memory_rewind(m, sz, st, env, p) ==
    LET node == p - HeaderSize
        w == IF InBuffer(sz, node) THEN ReadWord(m, node) ELSE 0
    IN
    IF ~(p # NULL /\ InBuffer(sz, node) /\ w % 2 # 0)
    THEN [mem |-> m, start |-> st, res |-> NULL, ok |-> FALSE]
    ELSE [mem |-> WriteWord(m, node, SizeBits(w)), start |-> node,
          res |-> NULL, ok |-> TRUE]

\* Release memory back to static allocator.  The check of the allocated
\* bit is an assert: a build with NDEBUG goes on without it.
static_release_memory(m, sz, st, env, p) ==
    LET node == p - HeaderSize
        w == IF InBuffer(sz, node) THEN ReadWord(m, node) ELSE 0
        pre == p # NULL /\ InBuffer(sz, node) /\ (env.debug => w % 2 # 0)
        m1 == WriteWord(m, node, SizeBits(w))
        n == SizeBits(w) - HeaderSize
    IN
    IF ~pre THEN [mem |-> m, start |-> st, res |-> NULL, ok |-> FALSE]
    ELSE [mem |-> IF env.debug THEN fill_memory(m1, p, 255, n) ELSE m1,
          start |-> IF node < st THEN node ELSE st,
          res |-> NULL,
          ok |-> env.debug => p + n <= sz]

\* relocate_node that takes the size of the node, header included, for
\* the size of its payload
relocate_node_whole(m, sz, st, env, node, n) ==
    LET psize == SizeBits(ReadWord(m, node))
        p == node + HeaderSize
        g == static_grab_memory(m, sz, st, n)
        q == g.res
    IN
    IF ~(psize <= n) THEN [mem |-> m, start |-> st, res |-> NULL, ok |-> FALSE]
    ELSE IF ~g.ok \/ q = NULL \/ q = DIVERGED THEN g
    ELSE
        LET copied == copy_memory(g.mem, q, p, psize, env)
            r == static_release_memory(copied.mem, sz, g.start, env, p)
        IN [mem |-> r.mem, start |-> r.start, res |-> q,
            ok |-> copied.ok /\ r.ok]

\* Move node to another area
relocate_node(m, sz, st, env, node, n) ==
    LET psize == SizeBits(ReadWord(m, node)) - HeaderSize
        p == node + HeaderSize
        g == static_grab_memory(m, sz, st, n)
        q == g.res
    IN
    IF ~(psize <= n) THEN [mem |-> m, start |-> st, res |-> NULL, ok |-> FALSE]
    ELSE IF ~g.ok \/ q = NULL \/ q = DIVERGED THEN g
    ELSE
        LET copied == copy_memory(g.mem, q, p, psize, env)
            r == static_release_memory(copied.mem, sz, g.start, env, p)
        IN [mem |-> r.mem, start |-> r.start, res |-> q,
            ok |-> copied.ok /\ r.ok]

\* static_resize_memory storing the combined size in the node before it
\* knows that the combined area is large enough
static_resize_memory_merge_first(m, sz, st, env, p, n) ==
    LET new_size == roundup(n)
        node == p - HeaderSize
        w == IF InBuffer(sz, node) THEN ReadWord(m, node) ELSE 0
        pre == p # NULL /\ InBuffer(sz, node) /\ w % 2 # 0
        merged == MergeLoop(m, sz, node, SizeBits(w))
        available == merged[1]
    IN
    IF ~pre \/ ~merged[2]
    THEN [mem |-> m, start |-> st, res |-> NULL, ok |-> FALSE]
    ELSE IF new_size <= available
    THEN allocate_node(WriteWord(m, node, available), sz, node, new_size)
    ELSE relocate_node(WriteWord(m, node, available + 1), sz, st, env, node, n)

\* static_resize_memory keeping the whole combined area for the region
static_resize_memory_keep_all(m, sz, st, env, p, n) ==
    LET new_size == roundup(n)
        node == p - HeaderSize
        w == IF InBuffer(sz, node) THEN ReadWord(m, node) ELSE 0
        pre == p # NULL /\ InBuffer(sz, node) /\ w % 2 # 0
        merged == MergeLoop(m, sz, node, SizeBits(w))
        available == merged[1]
    IN
    IF ~pre \/ ~merged[2]
    THEN [mem |-> m, start |-> st, res |-> NULL, ok |-> FALSE]
    ELSE IF new_size <= available
    THEN allocate_node(WriteWord(m, node, available), sz, node, available)
    ELSE relocate_node(m, sz, st, env, node, n)

\* Resize memory region
static_resize_memory(m, sz, st, env, p, n) ==
    LET new_size == roundup(n)
        node == p - HeaderSize
        w == IF InBuffer(sz, node) THEN ReadWord(m, node) ELSE 0
        pre == p # NULL /\ InBuffer(sz, node) /\ w % 2 # 0
        merged == MergeLoop(m, sz, node, SizeBits(w))
        available == merged[1]
    IN
    IF ~pre \/ ~merged[2]
    THEN [mem |-> m, start |-> st, res |-> NULL, ok |-> FALSE]
    ELSE IF new_size <= available
    THEN allocate_node(WriteWord(m, node, available), sz, node, new_size)
    ELSE relocate_node(m, sz, st, env, node, n)

----------------------------------------------------------------------------
(* tls.c: the failure-simulation harness *)

\* Maximum depth of recursion (the number of bits of the simulation vector)
MAX_RECURSION == 1024

\* Deterministic test functions are decision trees of at most MaxDepth
\* simulate_failure calls on a path.
MaxDepth == 2

\* Sequential test functions make up to MaxSeq calls.
MaxSeq == 4

\* Nondeterministic test functions make at most MaxCalls calls an execution.
MaxCalls == 3

\* 2^k for the bit positions of a byte
Pow2(k) == CASE k = 0 -> 1 [] k = 1 -> 2 [] k = 2 -> 4 [] k = 3 -> 8
             [] k = 4 -> 16 [] k = 5 -> 32 [] k = 6 -> 64 [] k = 7 -> 128

\* Get ith bit: (fp->simulate[i / 8] >> (i & 7)) & 1
getbit(sim, i) == (sim[i \div 8] \div Pow2(i % 8)) % 2

\* setbit that sets the bit whatever the value asked for
setbit_always(sim, i, value) ==
    LET offset == i \div 8
        shift == i % 8
        cleared == sim[offset] - getbit(sim, i) * Pow2(shift)
    IN [sim EXCEPT ![offset] = cleared + Pow2(shift)]

\* Set ith bit: simulate[offset] = (simulate[offset] & mask) | (value << shift)
setbit(sim, i, value) ==
    LET offset == i \div 8
        shift == i % 8
        cleared == sim[offset] - getbit(sim, i) * Pow2(shift)
    IN [sim EXCEPT ![offset] = cleared + value * Pow2(shift)]

\* The loop "while (i < MAX_RECURSION) _setbit (&frame, i++, 1)": bit by
\* bit up to the next byte boundary, then eight _setbit calls at a time
\* (they leave 0xff in a byte)
RECURSIVE SetFrom(_, _)
SetFrom(sim, i) ==
    IF i >= MAX_RECURSION THEN sim
    ELSE IF i % 8 # 0 THEN SetFrom(setbit(sim, i, 1), i + 1)
    ELSE [k \in DOMAIN sim |->
            IF k >= i \div 8 /\ k < MAX_RECURSION \div 8 THEN 255 ELSE sim[k]]

\* FindLast with the loop test inverted: while (_getbit (&frame, i) == 1)
RECURSIVE FindLastInverted(_, _)
FindLastInverted(sim, i) ==
    IF i < 0 THEN -1
    ELSE IF getbit(sim, i) = 1 THEN FindLastInverted(sim, i - 1)
    ELSE i

\* The loop "while (_getbit (&frame, i) == 0) i--", entered at i.  i is
\* unsigned: below zero it wraps to UINT_MAX, where _getbit's assertion
\* i < MAX_RECURSION fails; that outcome is -1 here.
RECURSIVE FindLast(_, _)
FindLast(sim, i) ==
    IF i < 0 THEN -1
    ELSE IF getbit(sim, i) = 0 THEN FindLast(sim, i - 1)
    ELSE i

\* The simulation vector repeat_test starts with: every byte 0xff
AllSet == [k \in 0..(MAX_RECURSION \div 8) |-> 255]

\* NextVector with the search started at count instead of count - 1
NextVectorFromCount(sim, count) ==
    LET i == FindLast(sim, count)
    IN SetFrom(setbit(sim, i, 0), i + 1)

\* NextVector without the loop that sets the later bits again
NextVectorNoReset(sim, count) ==
    LET i == FindLast(sim, count - 1)
    IN setbit(sim, i, 0)

\* NextVector that clears the first bit found set instead of the last
NextVectorClearFirst(sim, count) ==
    LET i == CHOOSE k \in 0..(count - 1) :
                 /\ getbit(sim, k) = 1
                 /\ \A j \in 0..(k - 1) : getbit(sim, j) = 0
    IN SetFrom(setbit(sim, i, 0), i + 1)

\* The update of the simulation vector after an execution that triggered a
\* failure: clear the last bit found set, set every later bit.
NextVector(sim, count) ==
    LET i == FindLast(sim, count - 1)
    IN SetFrom(setbit(sim, i, 0), i + 1)

(* Test functions.  What a test function does next depends on the results *)
(* of the simulate_failure calls it has made in this execution (1: fail,   *)
(* 0: do not fail).  A tree is a leaf [op |-> "ret", v |-> result] or a    *)
(* call [op |-> "call", f |-> subtree on fail, s |-> subtree on success].  *)

Pass == [op |-> "ret", v |-> 1]
Fail == [op |-> "ret", v |-> 0]
Call(onfail, onok) == [op |-> "call", f |-> onfail, s |-> onok]

RECURSIVE Trees(_)
Trees(d) ==
    IF d = 0 THEN {Pass, Fail}
    ELSE {Pass, Fail} \cup {Call(a, b) : a \in Trees(d - 1), b \in Trees(d - 1)}

\* t-simulate-failure.c: never, always, second, fourth
never == Fail
always == Pass
second == Call(Fail, Pass)
fourth == Call(Fail, Call(Fail, Call(Fail, Pass)))

\* t-exit-handler.c: allocate, handler1, handler2 (every allocate_memory
\* and resize_memory of the faulty allocator calls simulate_failure once)
allocate == Call(Fail, Call(Fail, Call(Fail, Pass)))
handler1 == Call(Call(Fail, Pass), Call(Fail, Pass))
handler2 == Call(Call(Call(Fail, Pass), Pass), Pass)

\* The subtree reached after the call results o
RECURSIVE Walk(_, _)
Walk(t, o) ==
    IF o = <<>> THEN t
    ELSE IF t.op # "call" THEN t
    ELSE Walk(IF Head(o) = 1 THEN t.f ELSE t.s, Tail(o))

\* The moves open to test function f after the call results o: "call"
\* simulate_failure, return 1 ("pass") or return 0 ("fail")
Moves(f, o) ==
    CASE f.kind = "tree" ->
           LET t == Walk(f.t, o) IN
           IF t.op = "call" THEN {"call"}
           ELSE IF t.v = 1 THEN {"pass"} ELSE {"fail"}
      [] f.kind = "seq" ->
           \* t-exit-handler.c sequential: n allocations, stop at the first
           \* that fails
           IF o # <<>> /\ o[Len(o)] = 1 THEN {"fail"}
           ELSE IF Len(o) = f.n THEN {"pass"}
           ELSE {"call"}
      [] f.kind = "nondet" ->
           IF Len(o) < MaxCalls THEN {"call", "pass", "fail"}
           ELSE {"pass", "fail"}
      [] f.kind = "outer" ->
           \* t-simulate-failure.c recursive, with f.n allocations of its
           \* own before and after: a failed allocation ends it, entry
           \* f.n + 1 of o is the result of its repeat_test call (2 or 3)
           IF o # <<>> /\ o[Len(o)] = 1 THEN {"fail"}
           ELSE IF Len(o) < f.n THEN {"call"}
           ELSE IF Len(o) = f.n THEN {"nest"}
           ELSE IF Len(o) < 2 * f.n + 1 THEN {"call"}
           ELSE {"pass"}
      [] f.kind = "faulty" ->
           \* a function that makes up to f.n allocations and resizes on the
           \* faulty allocator, releases what it likes and returns what it
           \* likes
           (IF Len(o) < f.n THEN {"grab", "resize"} ELSE {})
               \cup {"release", "pass", "fail"}
      [] f.kind = "deep" ->
           \* a function with a static flag: its first execution makes f.n
           \* calls whatever they return, the later ones make none
           IF runs # <<>> THEN {"pass"}
           ELSE IF Len(o) < f.n THEN {"call"}
           ELSE {"fail"}
      [] OTHER -> {}

TestFunctions ==
    {[kind |-> "tree", t |-> t, n |-> 0] :
        t \in Trees(MaxDepth) \cup {fourth, handler2}}
    \cup {[kind |-> "seq", t |-> Fail, n |-> n] : n \in (0..MaxSeq) \cup {100}}
    \cup {[kind |-> "nondet", t |-> Fail, n |-> 0]}

----------------------------------------------------------------------------
(* The arena and its caller *)

\* Sizes the caller asks for: one of every class roundup maps to the same
\* node size, up to one class more than the buffer can hold, and 8, the
\* first size of roundup's second branch.  For all of them roundup's own
\* assertions (new_size >= n, new_size > header) hold.
ReqSizes == {8} \cup {n \in 1..(16 * BufUnits) : n % 8 = 1}

\* Usable bytes of the live region p (node size minus header)
Usable(m, p) == SizeBits(ReadWord(m, p - HeaderSize)) - HeaderSize

\* The word the caller's pattern puts at word i of a region
Pattern(i) == Huge + 256 + i

\* What the buffer holds before an NDEBUG build creates the allocator in
\* it (the static buffer of the tests is zeroed).
UninitByte == 0

\* create_static_allocator_with_buffer(ap, vtable, buffer, sz) returned 1
FreshBuffer(sz, nd) ==
    WriteWord([k \in 0..(sz \div HeaderSize - 1) |->
                  ByteWord(IF nd THEN UninitByte ELSE 204)],
              0, sz)

\* create_static_allocator_with_buffer on a buffer of sz bytes
Created(sz, nd, w) ==
    /\ size = sz
    /\ ndebug = nd
    /\ win32 = w
    /\ mem = FreshBuffer(sz, nd)
    /\ start = 0
    /\ live = {}
    /\ last = [op |-> "create", p |-> NULL, n |-> sz, res |-> NULL, from |-> 0]
    /\ calls = 0
    /\ step = 0

\* The system heap has MaxBlocks blocks to give
MaxBlocks == 2

\* Nothing of the library around the arena and the harness has been used
FaultyIdle ==
    /\ heap = [b \in 1..MaxBlocks |-> 0]
    /\ flast = [op |-> "none", p |-> NULL, n |-> 0, res |-> NULL,
                sys |-> "none", seq |-> 0]

LibIdle ==
    /\ FaultyIdle
    /\ th = <<>>
    /\ reg = <<>>
    /\ fx = <<>>
    /\ cs = <<>>
    /\ xh = <<>>

\* The locals of the thread that calls repeat_test, before the call
HarnessLocals(f) ==
    /\ frame = [triggered |-> 0, count |-> 0, simulate |-> <<>>]
    /\ active = "NULL"
    /\ old = "NULL"
    /\ pc = "idle"
    /\ fn = f
    /\ outs = <<>>
    /\ runs = <<>>
    /\ ok = 0
    /\ stack = <<>>
    /\ outside = <<>>

\* No repeat_test has been called; f is the test function it will be given
HarnessIdle(f) ==
    /\ HarnessLocals(f)
    /\ LibIdle

Init ==
    /\ \E nd, w \in BOOLEAN : Created(16 * BufUnits, nd, w)
    /\ limit = MaxOps
    /\ cyc = [pos |-> 0, p1 |-> NULL, p2 |-> NULL, count |-> 0, first |-> 1]
    /\ HarnessIdle([kind |-> "none", t |-> Fail, n |-> 0])

\* The build of the library, and what a wild read gives in this call
Build(u) == [debug |-> ~ndebug, win32 |-> win32, wild |-> u]

\* The process is running (no assertion has failed, no call has hung) and
\* the caller has calls left
Running == last.op \notin {"abort", "hang"} /\ calls < limit

\* The calls main () of t-static-allocator.c makes on its arena, up to the
\* last allocation it asserts on
TestCalls ==
    << [op |-> "grab", n |-> 1000], [op |-> "grab", n |-> 1000],
       [op |-> "resize", n |-> 100], [op |-> "grab", n |-> 800] >>

\* The position in TestCalls after the call op(n)
Follow(op, n) ==
    IF /\ step >= 0 /\ step < Len(TestCalls)
       /\ TestCalls[step + 1] = [op |-> op, n |-> n]
    THEN step + 1
    ELSE -1

\* Install the outcome r of the call op(p, n)
Outcome(op, p, n, r, newlive) ==
    /\ calls' = calls + 1
    /\ step' = Follow(op, n)
    /\ IF ~r.ok
       THEN /\ last' = [op |-> "abort", p |-> p, n |-> n, res |-> NULL,
                         from |-> start]
            /\ UNCHANGED <<mem, start, live>>
       ELSE IF r.res = DIVERGED
       THEN /\ last' = [op |-> "hang", p |-> p, n |-> n, res |-> NULL,
                         from |-> start]
            /\ UNCHANGED <<mem, start, live>>
       ELSE /\ mem' = r.mem
            /\ start' = r.start
            /\ live' = newlive
            /\ last' = [op |-> op, p |-> p, n |-> n, res |-> r.res,
                         from |-> start]

\* p = static_grab_memory(ap, n)
Grab(n) ==
    /\ Running
    /\ LET r == static_grab_memory(mem, size, start, n) IN
       Outcome("grab", NULL, n, r,
               IF r.res # NULL THEN live \cup {r.res} ELSE live)
    /\ UNCHANGED <<size, ndebug, win32, limit, cyc>>
    /\ UNCHANGED <<harnessVars, libVars>>

\* static_release_memory(ap, p) on a pointer the caller holds
Release(p) ==
    /\ Running
    /\ LET r == static_release_memory(mem, size, start, Build(0), p) IN
       Outcome("release", p, 0, r, live \ {p})
    /\ UNCHANGED <<size, ndebug, win32, limit, cyc>>
    /\ UNCHANGED <<harnessVars, libVars>>

\* q = static_resize_memory(ap, p, n) on a pointer the caller holds
Resize(p, n) ==
    /\ Running
    /\ \E u \in (IF win32 THEN WildReads ELSE {Fault}) :
          LET r == static_resize_memory(mem, size, start, Build(u), p, n) IN
          Outcome("resize", p, n, r,
                  IF r.res # NULL THEN (live \ {p}) \cup {r.res} ELSE live)
    /\ UNCHANGED <<size, ndebug, win32, limit, cyc>>
    /\ UNCHANGED <<harnessVars, libVars>>

\* The caller writes a pattern over the usable bytes of a region it holds
Fill(p) ==
    /\ Running
    /\ mem' = [k \in DOMAIN mem |->
                 IF k * HeaderSize >= p /\ k * HeaderSize < p + Usable(mem, p)
                 THEN Pattern(k - p \div HeaderSize) ELSE mem[k]]
    /\ last' = [op |-> "fill", p |-> p, n |-> 0, res |-> NULL,
                from |-> start]
    /\ calls' = calls + 1
    /\ step' = Follow("fill", 0)
    /\ UNCHANGED <<size, start, ndebug, win32, limit, cyc, live>>
    /\ UNCHANGED <<harnessVars, libVars>>

Next ==
    \/ \E n \in ReqSizes : Grab(n)
    \/ \E p \in live : Release(p)
    \/ \E p \in live : \E n \in ReqSizes : Resize(p, n)
    \/ \E p \in live : Fill(p)

Spec == Init /\ [][Next]_vars

\* More calls than MaxOps, with fewer sizes to choose from: the node sizes
\* 16, 32, the whole buffer and (too large for it) 16 * BufUnits + 8
MaxScanOps == 7
ScanSizes == {1, 17, 16 * BufUnits - 15, 16 * BufUnits - 7}

InitScan ==
    /\ \E nd, w \in BOOLEAN : Created(16 * BufUnits, nd, w)
    /\ limit = MaxScanOps
    /\ cyc = [pos |-> 0, p1 |-> NULL, p2 |-> NULL, count |-> 0, first |-> 1]
    /\ HarnessIdle([kind |-> "none", t |-> Fail, n |-> 0])

NextScan ==
    \/ \E n \in ScanSizes : Grab(n)
    \/ \E p \in live : Release(p)
    \/ \E p \in live : \E n \in ScanSizes : Resize(p, n)

\* Longer call sequences on the small arena
SpecScan == InitScan /\ [][NextScan]_vars

\* The pointers into the buffer that the caller does not hold and whose
\* header word is not marked allocated: the regions it has released and
\* any other stale or made-up pointer
FreedPointers ==
    {p \in {HeaderSize * k : k \in 1..(size \div HeaderSize)} :
        p \notin live /\ is_free(mem, p - HeaderSize)}

\* static_release_memory(ap, p) on a pointer whose node is not allocated
ReleaseFreed(p) ==
    /\ Running
    /\ LET r == static_release_memory(mem, size, start, Build(0), p) IN
       Outcome("release", p, 0, r, live)
    /\ UNCHANGED <<size, ndebug, win32, limit, cyc>>
    /\ UNCHANGED <<harnessVars, libVars>>

\* A caller that also releases what it does not hold
NextMisuse ==
    \/ NextScan
    \/ \E p \in FreedPointers : ReleaseFreed(p)

MaxMisuseOps == 4

InitMisuse ==
    /\ \E nd, w \in BOOLEAN : Created(16 * BufUnits, nd, w)
    /\ limit = MaxMisuseOps
    /\ cyc = [pos |-> 0, p1 |-> NULL, p2 |-> NULL, count |-> 0, first |-> 1]
    /\ HarnessIdle([kind |-> "none", t |-> Fail, n |-> 0])

SpecMisuse == InitMisuse /\ [][NextMisuse]_vars

\* The sizes a caller may pass that has no bound on them: small ones and
\* the largest values of size_t
WideSizes == {1, 17, 16 * BufUnits - 15, SIZE_MAX - 6, SIZE_MAX}

\* p = static_grab_memory(ap, n) for any n: the assertions of roundup end
\* a build that has them
GrabWide(n) ==
    /\ Running
    /\ LET g == static_grab_memory(mem, size, start, n)
           r == [g EXCEPT !.ok = g.ok /\ (ndebug \/ roundup_ok(n))]
       IN Outcome("grab", NULL, n, r,
                  IF r.res # NULL THEN live \cup {r.res} ELSE live)
    /\ UNCHANGED <<size, ndebug, win32, limit, cyc>>
    /\ UNCHANGED <<harnessVars, libVars>>

NextWide ==
    \/ \E n \in WideSizes : GrabWide(n)
    \/ \E p \in live : Release(p)

\* An arena whose caller passes any size_t to grab
SpecWide == Init /\ [][NextWide]_vars

\* test_allocator () runs its loop body up to MaxCycles times on arenas of
\* 16 * MinCycleUnits to 16 * MaxCycleUnits bytes
MaxCycles == 24
MinCycleUnits == 7
MaxCycleUnits == 14

\* The loop body of test_allocator (): the call at each position, the
\* pointer it is given and the pointer variable it assigns
CycleBody ==
    << [op |-> "grab",    n |-> 0,  arg |-> "",   to |-> "p1", c |-> 0],
       [op |-> "release", n |-> 0,  arg |-> "p1", to |-> "",   c |-> 0],
       [op |-> "grab",    n |-> 15, arg |-> "",   to |-> "p1", c |-> 0],
       [op |-> "fill",    n |-> 15, arg |-> "p1", to |-> "",   c |-> 33],
       [op |-> "grab",    n |-> 12, arg |-> "",   to |-> "p2", c |-> 0],
       [op |-> "fill",    n |-> 12, arg |-> "p2", to |-> "",   c |-> 97],
       [op |-> "resize",  n |-> 55, arg |-> "p1", to |-> "p1", c |-> 0],
       [op |-> "fill",    n |-> 55, arg |-> "p1", to |-> "",   c |-> 120],
       [op |-> "resize",  n |-> 10, arg |-> "p1", to |-> "p1", c |-> 0],
       [op |-> "release", n |-> 0,  arg |-> "p1", to |-> "",   c |-> 0],
       [op |-> "release", n |-> 0,  arg |-> "p2", to |-> "",   c |-> 0] >>

\* The value of the pointer variable named v
CycleArg(v) == IF v = "p1" THEN cyc.p1 ELSE cyc.p2

\* cyc after the call at the current position returned q: the call's
\* result is assigned, an assert (q != NULL) that fails stops the test,
\* the last position starts the next round
CycleAfter(q) ==
    LET c == CycleBody[cyc.pos]
        assigned == IF c.to = "p1" THEN [cyc EXCEPT !.p1 = q]
                    ELSE IF c.to = "p2" THEN [cyc EXCEPT !.p2 = q]
                    ELSE cyc
    IN
    IF c.to # "" /\ c.n # 0 /\ q = NULL THEN [assigned EXCEPT !.pos = 0]
    ELSE IF cyc.pos < Len(CycleBody)
    THEN [assigned EXCEPT !.pos = cyc.pos + 1]
    ELSE IF cyc.count + 1 < MaxCycles
    THEN [assigned EXCEPT !.pos = cyc.first, !.count = cyc.count + 1]
    ELSE [assigned EXCEPT !.pos = 0, !.count = cyc.count + 1]

\* The test is at a call of the kind op and the process is alive
CycleAt(op) ==
    /\ last.op \notin {"abort", "hang"}
    /\ cyc.pos > 0
    /\ CycleBody[cyc.pos].op = op

\* p = ap->vtable->grab (ap, n)
CycleGrab ==
    /\ CycleAt("grab")
    /\ LET n == CycleBody[cyc.pos].n
           r == static_grab_memory(mem, size, start, n)
       IN /\ Outcome("grab", NULL, n, r,
                     IF r.res # NULL THEN live \cup {r.res} ELSE live)
          /\ cyc' = CycleAfter(r.res)
    /\ UNCHANGED <<size, ndebug, win32, limit>>
    /\ UNCHANGED <<harnessVars, libVars>>

\* ap->vtable->release (ap, p)
CycleRelease ==
    /\ CycleAt("release")
    /\ LET p == CycleArg(CycleBody[cyc.pos].arg)
           r == static_release_memory(mem, size, start, Build(0), p)
       IN /\ Outcome("release", p, 0, r, live \ {p})
          /\ cyc' = CycleAfter(NULL)
    /\ UNCHANGED <<size, ndebug, win32, limit>>
    /\ UNCHANGED <<harnessVars, libVars>>

\* tmp = ap->vtable->resize (ap, p1, n); assert (tmp != NULL); p1 = tmp
CycleResize ==
    /\ CycleAt("resize")
    /\ LET p == CycleArg(CycleBody[cyc.pos].arg)
           n == CycleBody[cyc.pos].n
       IN \E u \in (IF win32 THEN WildReads ELSE {Fault}) :
            LET r == static_resize_memory(mem, size, start, Build(u), p, n) IN
            /\ Outcome("resize", p, n, r,
                       IF r.res # NULL THEN (live \ {p}) \cup {r.res} ELSE live)
            /\ cyc' = CycleAfter(r.res)
    /\ UNCHANGED <<size, ndebug, win32, limit>>
    /\ UNCHANGED <<harnessVars, libVars>>

\* fill_memory (p, c, n): the words that hold the n bytes
CycleFill ==
    /\ CycleAt("fill")
    /\ LET c == CycleBody[cyc.pos]
           p == CycleArg(c.arg)
       IN /\ mem' = fill_memory(mem, p, c.c, c.n)
          /\ last' = [op |-> "fill", p |-> p, n |-> c.n, res |-> NULL,
                      from |-> start]
    /\ cyc' = CycleAfter(NULL)
    /\ calls' = calls + 1
    /\ step' = Follow("fill", 0)
    /\ UNCHANGED <<size, start, ndebug, win32, limit, live>>
    /\ UNCHANGED <<harnessVars, libVars>>

InitCycle ==
    /\ \E nd, w \in BOOLEAN : \E u \in MinCycleUnits..MaxCycleUnits :
          Created(16 * u, nd, w)
    /\ limit = 0
    /\ \E f \in {1, 3} :
          cyc = [pos |-> f, p1 |-> NULL, p2 |-> NULL, count |-> 0, first |-> f]
    /\ HarnessIdle([kind |-> "none", t |-> Fail, n |-> 0])

NextCycle ==
    \/ CycleGrab
    \/ CycleRelease
    \/ CycleResize
    \/ CycleFill

\* test_allocator () on the static allocator, with and without the
\* zero-byte grab that opens each round
SpecCycle == InitCycle /\ [][NextCycle]_vars

\* The buffer of t-static-allocator.c
TestBufferSize == 1024

\* The sizes t-static-allocator.c asks for
TestSizes == {100, 800, 1000}

InitTest ==
    /\ \E nd, w \in BOOLEAN : Created(TestBufferSize, nd, w)
    /\ limit = MaxOps
    /\ cyc = [pos |-> 0, p1 |-> NULL, p2 |-> NULL, count |-> 0, first |-> 1]
    /\ HarnessIdle([kind |-> "none", t |-> Fail, n |-> 0])

NextTest ==
    \/ \E n \in TestSizes : Grab(n)
    \/ \E p \in live : Release(p)
    \/ \E p \in live : \E n \in TestSizes : Resize(p, n)

\* Any calls with the test's sizes on the test's buffer
SpecTest == InitTest /\ [][NextTest]_vars

----------------------------------------------------------------------------
(* The thread running repeat_test (f) *)

\* The address of the frame local to the repeat_test at nesting depth d
FrameAddr(d) == IF d = 0 THEN "frame" ELSE "inner"

\* get_frame () that sees no frame once repeat_test has returned to a test
\* function's caller but the frame of the last run otherwise
get_frame_stale == IF pc = "returned" THEN FrameAddr(Len(stack)) ELSE active

\* get_frame () of a thread on which the set_frame of a repeat_test called
\* by a test function has no effect
get_frame_outermost == IF stack # <<>> THEN FrameAddr(0) ELSE active

\* get_frame (): the thread's active frame, or NULL
get_frame == active

\* The frame fp points to: the one of the running repeat_test, or the one
\* of the repeat_test suspended in it
Deref(fp) ==
    IF stack # <<>> /\ fp = FrameAddr(0) THEN stack[1].frame ELSE frame

\* fp points to the frame of a repeat_test that has returned
Dangling(fp) == fp # "NULL" /\ fp # FrameAddr(Len(stack)) /\ fp # FrameAddr(0)

\* int repeat_test (test_function *f), up to the do loop: initialize the
\* frame with every bit set and publish it
RepeatTestEnter ==
    /\ pc = "idle"
    /\ frame' = [triggered |-> 0, count |-> 0, simulate |-> AllSet]
    /\ old' = get_frame
    /\ active' = FrameAddr(Len(stack))
    /\ pc' = "loop"
    /\ UNCHANGED <<fn, outs, runs, ok, stack, outside>>
    /\ UNCHANGED <<arenaVars, libVars>>

\* The frame at the top of the do loop with the triggered flag raised
NewIterationTriggered(fr) == [fr EXCEPT !.triggered = 1, !.count = 0]

\* Initialize frame for new iteration
NewIteration(fr) == [fr EXCEPT !.triggered = 0, !.count = 0]

\* Top of the do loop: initialize frame for new iteration and call f ()
IterBegin ==
    /\ pc = "loop"
    /\ frame' = NewIteration(frame)
    /\ outs' = <<>>
    /\ pc' = "exec"
    /\ UNCHANGED <<active, old, fn, runs, ok, stack, outside>>
    /\ UNCHANGED <<arenaVars, libVars>>

\* simulate_failure without "fp->triggered = 1"
simulate_failure_untriggered(fp, fr) ==
    IF fp = "NULL"
    THEN [frame |-> fr, res |-> 0, terminated |-> FALSE]
    ELSE IF fr.count < MAX_RECURSION
    THEN [frame |-> [fr EXCEPT !.count = fr.count + 1],
          res |-> IF getbit(fr.simulate, fr.count) # 0 THEN 1 ELSE 0,
          terminated |-> FALSE]
    ELSE [frame |-> fr, res |-> 0, terminated |-> TRUE]

\* simulate_failure that raises triggered whatever the bit is
simulate_failure_trigger_any(fp, fr) ==
    IF fp = "NULL"
    THEN [frame |-> fr, res |-> 0, terminated |-> FALSE]
    ELSE IF fr.count < MAX_RECURSION
    THEN [frame |-> [fr EXCEPT !.count = fr.count + 1, !.triggered = 1],
          res |-> IF getbit(fr.simulate, fr.count) # 0 THEN 1 ELSE 0,
          terminated |-> FALSE]
    ELSE [frame |-> fr, res |-> 0, terminated |-> TRUE]

\* int simulate_failure (void) called with the active frame pointer fp and
\* the frame fr it points to: the changed frame, the return value, and
\* whether terminate () was called
simulate_failure(fp, fr) ==
    IF fp = "NULL"
    THEN [frame |-> fr, res |-> 0, terminated |-> FALSE]
    ELSE IF fr.count < MAX_RECURSION
    THEN IF getbit(fr.simulate, fr.count) # 0
         THEN [frame |-> [fr EXCEPT !.count = fr.count + 1, !.triggered = 1],
               res |-> 1, terminated |-> FALSE]
         ELSE [frame |-> [fr EXCEPT !.count = fr.count + 1],
               res |-> 0, terminated |-> FALSE]
    ELSE [frame |-> fr, res |-> 0, terminated |-> TRUE]

\* What simulate_failure () returns after terminate () has returned: the
\* local ok was never assigned
Unassigned == {0, 1}

\* A simulate_failure () call made at position at ("exec": by the test
\* function, its result goes to outs; otherwise by the thread outside
\* repeat_test, its result goes to outside).  terminate () ends the process
\* (terminate.c:26-31) except where WIN32 is defined: there it is empty
\* (terminate.c:33-38) and simulate_failure returns its unassigned ok.
SimulateFailureAt(at) ==
    LET fp == get_frame
        r == simulate_failure(fp, Deref(fp))
        Returned(v) ==
            IF at = "exec"
            THEN outs' = Append(outs, v) /\ UNCHANGED outside
            ELSE outside' = Append(outside, v) /\ UNCHANGED outs
    IN
    IF Dangling(fp)
    THEN /\ pc' = "abort"
         /\ UNCHANGED <<frame, outs, stack, outside>>
    ELSE IF r.terminated /\ ~win32
    THEN /\ pc' = "terminated"
         /\ UNCHANGED <<frame, outs, stack, outside>>
    ELSE IF r.terminated
    THEN /\ \E v \in Unassigned : Returned(v)
         /\ UNCHANGED <<frame, pc, stack>>
    ELSE /\ Returned(r.res)
         /\ pc' = pc
         /\ IF stack # <<>> /\ fp = FrameAddr(0)
            THEN /\ stack' = [stack EXCEPT ![1].frame = r.frame]
                 /\ UNCHANGED frame
            ELSE /\ frame' = r.frame
                 /\ UNCHANGED stack

\* The test function calls simulate_failure ()
SimulateFailure ==
    /\ pc = "exec"
    /\ "call" \in Moves(fn, outs)
    /\ SimulateFailureAt("exec")
    /\ UNCHANGED <<active, old, fn, runs, ok>>
    /\ UNCHANGED <<arenaVars, libVars>>

\* The thread calls simulate_failure () before it calls repeat_test or
\* after repeat_test has returned to it
SimulateFailureOutside ==
    /\ pc \in {"idle", "returned"}
    /\ stack = <<>>
    /\ Len(outside) < MaxCalls
    /\ SimulateFailureAt(pc)
    /\ UNCHANGED <<active, old, fn, runs, ok>>
    /\ UNCHANGED <<arenaVars, libVars>>

\* The test function returns v: ok = f ()
TestReturn(v) ==
    /\ pc = "exec"
    /\ (IF v = 1 THEN "pass" ELSE "fail") \in Moves(fn, outs)
    /\ ok' = v
    /\ runs' = Append(runs, outs)
    /\ pc' = "check"
    /\ UNCHANGED <<frame, active, old, fn, outs, stack, outside>>
    /\ UNCHANGED <<arenaVars, libVars>>

\* if (frame.triggered): let the last failed call succeed next time, and
\* every call after it fail; repeat
Backtrack ==
    /\ pc = "check"
    /\ frame.triggered # 0
    /\ IF FindLast(frame.simulate, frame.count - 1) < 0
       THEN /\ pc' = "abort"
            /\ UNCHANGED frame
       ELSE /\ frame' = [frame EXCEPT
                           !.simulate = NextVector(frame.simulate, frame.count)]
            /\ pc' = "loop"
    /\ UNCHANGED <<active, old, fn, outs, runs, ok, stack, outside>>
    /\ UNCHANGED <<arenaVars, libVars>>

\* else break: restore old test frame and return ok
Finish ==
    /\ pc = "check"
    /\ frame.triggered = 0
    /\ active' = old
    /\ pc' = "returned"
    /\ UNCHANGED <<frame, old, fn, outs, runs, ok, stack, outside>>
    /\ UNCHANGED <<arenaVars, libVars>>

\* The test function calls repeat_test (g), g the function fn.t: the
\* running repeat_test is suspended with its locals
NestedEnter ==
    /\ pc = "exec"
    /\ "nest" \in Moves(fn, outs)
    /\ stack' = Append(stack, [frame |-> frame, old |-> old, fn |-> fn,
                               outs |-> outs, runs |-> runs, ok |-> ok])
    /\ fn' = [kind |-> "tree", t |-> fn.t, n |-> 0]
    /\ outs' = <<>>
    /\ runs' = <<>>
    /\ pc' = "idle"
    /\ UNCHANGED <<frame, active, old, ok, outside>>
    /\ UNCHANGED <<arenaVars, libVars>>

\* The repeat_test a test function called has returned ok to it: the test
\* function goes on, entry 2 + ok of outs is the result it was given
NestedReturn ==
    /\ pc = "returned"
    /\ stack # <<>>
    /\ LET top == stack[Len(stack)] IN
       /\ frame' = top.frame
       /\ old' = top.old
       /\ fn' = top.fn
       /\ outs' = Append(top.outs, 2 + ok)
       /\ runs' = top.runs
       /\ ok' = top.ok
    /\ stack' = SubSeq(stack, 1, Len(stack) - 1)
    /\ pc' = "exec"
    /\ UNCHANGED <<active, outside>>
    /\ UNCHANGED <<arenaVars, libVars>>

\* The arena is not used by the harness runs; w: WIN32 is defined
ArenaUnusedOn(w) ==
    /\ mem = <<>>
    /\ size = 0
    /\ start = 0
    /\ ndebug = FALSE
    /\ win32 = w
    /\ live = {}
    /\ last = [op |-> "none", p |-> NULL, n |-> 0, res |-> NULL, from |-> 0]
    /\ calls = 0
    /\ limit = 0
    /\ cyc = [pos |-> 0, p1 |-> NULL, p2 |-> NULL, count |-> 0, first |-> 1]
    /\ step = 0

\* The arena is not used by the harness runs
ArenaUnused == ArenaUnusedOn(FALSE)

InitHarness ==
    /\ ArenaUnused
    /\ \E f \in TestFunctions : HarnessIdle(f)

NextHarness ==
    \/ RepeatTestEnter
    \/ IterBegin
    \/ SimulateFailure
    \/ \E v \in {0, 1} : TestReturn(v)
    \/ Backtrack
    \/ Finish

SpecHarness == InitHarness /\ [][NextHarness]_vars

\* repeat_test under a scheduler that keeps running the thread
FairHarness == SpecHarness /\ WF_vars(NextHarness)

\* The functions of the thread that also calls simulate_failure () itself
OutsideFunctions ==
    {[kind |-> "tree", t |-> t, n |-> 0] :
        t \in {always, never, second, fourth, handler1}}

InitOutside ==
    /\ ArenaUnused
    /\ \E f \in OutsideFunctions : HarnessIdle(f)

NextOutside ==
    \/ NextHarness
    \/ SimulateFailureOutside

\* A thread that calls simulate_failure () before and after repeat_test
SpecOutside == InitOutside /\ [][NextOutside]_vars

\* A test function makes up to MaxOwn allocations of its own before and
\* after its repeat_test call
MaxOwn == 2

\* Test functions that call repeat_test (g)
NestedFunctions ==
    {[kind |-> "outer", t |-> t, n |-> n] :
        t \in {always, never, second, fourth, handler1, handler2},
        n \in 0..MaxOwn}

InitNested ==
    /\ ArenaUnused
    /\ \E f \in NestedFunctions : HarnessIdle(f)

NextNested ==
    \/ NextHarness
    \/ NestedEnter
    \/ NestedReturn

\* repeat_test on test functions that call repeat_test
SpecNested == InitNested /\ [][NextNested]_vars

----------------------------------------------------------------------------
(* The faulty allocator *)

\* Blocks of the system heap that are not allocated
FreeBlocks(h) == {b \in DOMAIN h : h[b] = 0}

\* malloc (n): q is the block the system picks, NULL when it has none to give
system_allocate_memory(h, n, q) ==
    IF q = NULL THEN [heap |-> h, res |-> NULL]
    ELSE [heap |-> [h EXCEPT ![q] = n], res |-> q]

\* free (p)
system_free_memory(h, p) == [h EXCEPT ![p] = 0]

\* realloc (p, n): q is the block the system picks, p itself when the
\* block is resized in place, NULL when the resize fails
system_resize_memory(h, p, n, q) ==
    IF q = NULL THEN [heap |-> h, res |-> NULL]
    ELSE IF q = p THEN [heap |-> [h EXCEPT ![p] = n], res |-> p]
    ELSE [heap |-> [h EXCEPT ![p] = 0, ![q] = n], res |-> q]

\* faulty_allocate_memory that asks the system whatever simulate_failure said
faulty_allocate_memory_always(failed, h, n, q) ==
    [heap |-> system_allocate_memory(h, n, q).heap,
     res |-> system_allocate_memory(h, n, q).res, sys |-> "malloc"]

\* faulty_allocate_memory (ap, n), failed what its simulate_failure ()
\* call returned
faulty_allocate_memory(failed, h, n, q) ==
    IF failed = 0
    THEN [heap |-> system_allocate_memory(h, n, q).heap,
          res |-> system_allocate_memory(h, n, q).res, sys |-> "malloc"]
    ELSE [heap |-> h, res |-> NULL, sys |-> "none"]

\* faulty_resize_memory (ap, p, n), failed what its simulate_failure ()
\* call returned
faulty_resize_memory(failed, h, p, n, q) ==
    IF failed = 0
    THEN [heap |-> system_resize_memory(h, p, n, q).heap,
          res |-> system_resize_memory(h, p, n, q).res, sys |-> "realloc"]
    ELSE [heap |-> h, res |-> NULL, sys |-> "none"]

\* faulty_free_memory (ap, p)
faulty_free_memory(h, p) ==
    [heap |-> system_free_memory(h, p), res |-> NULL, sys |-> "free"]

\* Sizes the test function asks the faulty allocator for
FaultySizes == {1, 2}

\* Install the outcome r of the call op (p, n) on the faulty allocator
FaultyOutcome(op, p, n, r) ==
    /\ heap' = r.heap
    /\ flast' = [op |-> op, p |-> p, n |-> n, res |-> r.res, sys |-> r.sys,
                 seq |-> 1 - flast.seq]

\* The test function calls faulty_allocate_memory (ap, n); where the
\* simulate_failure () call ends the process nothing else happens
FaultyGrab(n) ==
    /\ pc = "exec"
    /\ "grab" \in Moves(fn, outs)
    /\ SimulateFailureAt("exec")
    /\ IF pc' # "exec" THEN UNCHANGED faultyVars
       ELSE \E q \in FreeBlocks(heap) \cup {NULL} :
              FaultyOutcome("grab", NULL, n,
                  faulty_allocate_memory(outs'[Len(outs')], heap, n, q))
    /\ UNCHANGED <<active, old, fn, runs, ok>>
    /\ UNCHANGED notFaulty

\* The test function calls faulty_resize_memory (ap, p, n) on a block it
\* holds
FaultyResize(p, n) ==
    /\ pc = "exec"
    /\ "resize" \in Moves(fn, outs)
    /\ heap[p] # 0
    /\ SimulateFailureAt("exec")
    /\ IF pc' # "exec" THEN UNCHANGED faultyVars
       ELSE \E q \in FreeBlocks(heap) \cup {p, NULL} :
              FaultyOutcome("resize", p, n,
                  faulty_resize_memory(outs'[Len(outs')], heap, p, n, q))
    /\ UNCHANGED <<active, old, fn, runs, ok>>
    /\ UNCHANGED notFaulty

\* The test function calls faulty_free_memory (ap, p) on a block it holds
FaultyRelease(p) ==
    /\ pc = "exec"
    /\ "release" \in Moves(fn, outs)
    /\ heap[p] # 0
    /\ FaultyOutcome("release", p, 0, faulty_free_memory(heap, p))
    /\ UNCHANGED notFaulty
    /\ UNCHANGED harnessVars

\* A test function makes up to MaxFaulty allocations and resizes
MaxFaulty == 2

InitFaulty ==
    /\ ArenaUnused
    /\ HarnessIdle([kind |-> "faulty", t |-> Fail, n |-> MaxFaulty])

NextFaulty ==
    \/ RepeatTestEnter
    \/ IterBegin
    \/ \E v \in {0, 1} : TestReturn(v)
    \/ Backtrack
    \/ Finish
    \/ \E n \in FaultySizes : FaultyGrab(n)
    \/ \E p \in DOMAIN heap : \E n \in FaultySizes : FaultyResize(p, n)
    \/ \E p \in DOMAIN heap : FaultyRelease(p)

\* repeat_test on a test function that uses the faulty allocator
SpecFaulty == InitFaulty /\ [][NextFaulty]_vars

----------------------------------------------------------------------------
(* Threads, each running repeat_test (build with pthreads) *)

\* The main thread and the thread it starts
Threads == {1, 2}

\* A thread makes at most MaxOutside calls of simulate_failure outside
\* repeat_test
MaxOutside == 1

\* The frame pointer NULL among the pointers to the frames of the threads
NoFrame == 0

\* get_frame () of a build that keeps one frame pointer for all threads
get_frame_global(t) == th[1].active

\* get_frame () called by thread t: pthread_getspecific (key), the slot of
\* t.  A frame pointer is NoFrame (NULL) or the thread whose repeat_test
\* holds the frame.
get_frame_of(t) == th[t].active

\* A thread that has not called repeat_test; pc is "unborn" for a thread
\* that is not started yet.  The slot of a new thread is NULL.
ThreadIdle(pc0, f) ==
    [frame |-> [triggered |-> 0, count |-> 0, simulate |-> <<>>],
     active |-> NoFrame, old |-> NoFrame, pc |-> pc0, fn |-> f,
     outs |-> <<>>, runs |-> <<>>, ok |-> 0, outside |-> <<>>,
     born |-> [at |-> "none", fp |-> NoFrame,
               frame |-> [triggered |-> 0, count |-> 0, simulate |-> <<>>]]]

\* A new thread whose slot of the frame key holds what its creator t has
new_thread_slot_inherited(t) == th[t].active

\* The slot of the frame key in the thread that pthread_create makes for
\* thread t: pthread_getspecific gives NULL until the thread sets it, and
\* entry () sets the fixture only
new_thread_slot(t) == NoFrame

\* start_thread (tp) called by thread t: pthread_create gives thread u,
\* whose entry () sets the fixture and runs the thread function.  born
\* records where t was and the frame t had.
StartThread(t, u) ==
    /\ th[t].pc \in {"idle", "exec", "returned"}
    /\ th[u].pc = "unborn"
    /\ th' = [th EXCEPT ![u].pc = "idle",
                        ![u].active = new_thread_slot(t),
                        ![u].born = [at |-> th[t].pc, fp |-> get_frame_of(t),
                                     frame |-> th[t].frame]]
    /\ UNCHANGED notThread

\* repeat_test (f) in thread t, up to the do loop
ThreadEnter(t) ==
    /\ th[t].pc = "idle"
    /\ th' = [th EXCEPT
                ![t].frame = [triggered |-> 0, count |-> 0, simulate |-> AllSet],
                ![t].old = get_frame_of(t),
                ![t].active = t,
                ![t].pc = "loop"]
    /\ UNCHANGED notThread

\* Top of the do loop in thread t
ThreadIterBegin(t) ==
    /\ th[t].pc = "loop"
    /\ th' = [th EXCEPT ![t].frame = NewIteration(th[t].frame),
                        ![t].outs = <<>>,
                        ![t].pc = "exec"]
    /\ UNCHANGED notThread

\* simulate_failure () called by thread t: the frame its slot points to is
\* read and written, the result goes to the test function (outs) or to
\* the code outside repeat_test (outside)
ThreadCall(t) ==
    /\ \/ th[t].pc = "exec" /\ "call" \in Moves(th[t].fn, th[t].outs)
       \/ th[t].pc \in {"idle", "returned"} /\ Len(th[t].outside) < MaxOutside
    /\ LET fp == get_frame_of(t)
           r == IF fp = NoFrame THEN simulate_failure("NULL", th[t].frame)
                ELSE simulate_failure("frame", th[fp].frame)
           wrote == IF fp = NoFrame THEN th ELSE [th EXCEPT ![fp].frame = r.frame]
       IN th' = IF th[t].pc = "exec"
                THEN [wrote EXCEPT ![t].outs = Append(th[t].outs, r.res)]
                ELSE [wrote EXCEPT ![t].outside = Append(th[t].outside, r.res)]
    /\ UNCHANGED notThread

\* The test function of thread t returns v
ThreadReturn(t, v) ==
    /\ th[t].pc = "exec"
    /\ (IF v = 1 THEN "pass" ELSE "fail") \in Moves(th[t].fn, th[t].outs)
    /\ th' = [th EXCEPT ![t].ok = v,
                        ![t].runs = Append(th[t].runs, th[t].outs),
                        ![t].pc = "check"]
    /\ UNCHANGED notThread

\* if (frame.triggered) in thread t
ThreadBacktrack(t) ==
    /\ th[t].pc = "check"
    /\ th[t].frame.triggered # 0
    /\ th' = IF FindLast(th[t].frame.simulate, th[t].frame.count - 1) < 0
             THEN [th EXCEPT ![t].pc = "abort"]
             ELSE [th EXCEPT
                     ![t].frame.simulate = NextVector(th[t].frame.simulate,
                                                      th[t].frame.count),
                     ![t].pc = "loop"]
    /\ UNCHANGED notThread

\* else break, set_frame (old), return ok in thread t
ThreadFinish(t) ==
    /\ th[t].pc = "check"
    /\ th[t].frame.triggered = 0
    /\ th' = [th EXCEPT ![t].active = th[t].old, ![t].pc = "returned"]
    /\ UNCHANGED notThread

\* The test functions of the threads
ThreadFunctions ==
    {[kind |-> "tree", t |-> t, n |-> 0] : t \in {second, fourth}}

InitThreads ==
    /\ ArenaUnused
    /\ HarnessLocals([kind |-> "none", t |-> Fail, n |-> 0])
    /\ FaultyIdle
    /\ reg = <<>>
    /\ fx = <<>>
    /\ cs = <<>>
    /\ xh = <<>>
    /\ \E f, g \in ThreadFunctions :
          th = [t \in Threads |->
                  IF t = 1 THEN ThreadIdle("idle", f) ELSE ThreadIdle("unborn", g)]

NextThreads ==
    \/ StartThread(1, 2)
    \/ \E t \in Threads :
          \/ ThreadEnter(t)
          \/ ThreadIterBegin(t)
          \/ ThreadCall(t)
          \/ \E v \in {0, 1} : ThreadReturn(t, v)
          \/ ThreadBacktrack(t)
          \/ ThreadFinish(t)

\* Two threads running repeat_test in any interleaving
SpecThreads == InitThreads /\ [][NextThreads]_vars

----------------------------------------------------------------------------
(* allocator.c: the list of allocators *)

\* The allocator objects: head and tail of the list, the singleton of the
\* faulty allocator and the objects the system heap gives.  A pointer to
\* an allocator is one of them, "NULL", or "wild" for (allocator_t*) -1.
HeapObjects == {"h1", "h2"}
Objects == {"head", "tail", "singleton"} \cup HeapObjects

\* The allocator types default_allocator, static_allocator and
\* faulty_allocator; the type of head and tail is "NULL"
HeapTypes == {"default", "static"}
AllocatorTypes == HeapTypes \cup {"faulty"}

\* The threads that call get_allocator
Callers == {1, 2}

\* The calls of get_allocator, new_allocator and delete_allocator made
\* before the process exits
MaxRegistryCalls == 3

\* An object of static storage, or of the heap before it is allocated
Blank == [next |-> "NULL", prev |-> "NULL", type |-> "NULL", made |-> FALSE]

\* enter_critical () that does not wait for the mutex
enter_critical_unlocked(l) == TRUE

\* enter_critical (): pthread_mutex_lock returns when no thread holds the
\* mutex (l = 0)
enter_critical(l) == l = 0

\* tp->allocate (): the objects it may return, "NULL" when it fails.
\* allocate_faulty_allocator returns its singleton at every call.
allocate_object(nd, tp) ==
    IF tp = "faulty" THEN {"singleton"}
    ELSE {q \in HeapObjects : ~nd[q].made} \cup {"NULL"}

\* What tp->create (ap, tp) may return: create_static_allocator fails when
\* it gets no buffer, create_allocator always returns 1
Creates(tp) == IF tp = "static" THEN BOOLEAN ELSE {TRUE}

\* Initialize default allocator
create_allocator(nd, ap, tp) ==
    [nd EXCEPT ![ap] = [next |-> "NULL", prev |-> "NULL", type |-> tp,
                        made |-> TRUE]]

\* Create new allocator: q is what tp->allocate () returned and created
\* what tp->create returned
new_allocator(nd, tp, q, created) ==
    IF q = "NULL" THEN [node |-> nd, res |-> "NULL"]
    ELSE IF created THEN [node |-> create_allocator(nd, q, tp), res |-> q]
    ELSE [node |-> nd, res |-> "NULL"]

\* The loop of find_allocator from ap: found with the allocator of type
\* tp, or not found at the first object whose next is null; ok is false
\* when the loop reads through a pointer that is no object or goes round
RECURSIVE FindLoop(_, _, _, _)
FindLoop(nd, ap, tp, fuel) ==
    IF ap \notin Objects \/ fuel = 0
    THEN [found |-> FALSE, ap |-> ap, ok |-> FALSE]
    ELSE IF nd[ap].next = "NULL" THEN [found |-> FALSE, ap |-> ap, ok |-> TRUE]
    ELSE IF nd[ap].type # tp THEN FindLoop(nd, nd[ap].next, tp, fuel - 1)
    ELSE [found |-> TRUE, ap |-> ap, ok |-> TRUE]

\* find_allocator adding the new allocator to the front of the list
prepend_allocator(nd, ap) ==
    LET first == nd["head"].next
        n1 == [nd EXCEPT ![ap].prev = "head", ![ap].next = first]
        n2 == [n1 EXCEPT ![first].prev = ap]
    IN [n2 EXCEPT !["head"].next = ap]

\* Add allocator to end of list
append_allocator(nd, ap) ==
    LET n1 == [nd EXCEPT ![ap].next = "tail", ![ap].prev = nd["tail"].prev]
        n2 == [n1 EXCEPT ![n1["tail"].prev].next = ap]
    IN [n2 EXCEPT !["tail"].prev = ap]

\* Delete allocator with resources: detach from the list, destroy, free.
\* ok is false when an assertion fails (debug) or a pointer that is no
\* object is followed.
delete_allocator(nd, ap, debug) ==
    IF ap = "NULL" THEN [node |-> nd, ok |-> TRUE]
    ELSE
        LET nx == nd[ap].next
            pv == nd[ap].prev
            okn == nx = "NULL" \/ (nx \in Objects /\ (debug => nd[nx].prev = ap))
            n1 == IF nx \in Objects THEN [nd EXCEPT ![nx].prev = pv] ELSE nd
            okp == pv = "NULL" \/ (pv \in Objects /\ (debug => n1[pv].next = ap))
            n2 == IF pv \in Objects THEN [n1 EXCEPT ![pv].next = nx] ELSE n1
            n3 == IF debug
                  THEN [n2 EXCEPT ![ap].next = "wild", ![ap].prev = "wild",
                                  ![ap].type = "wild"]
                  ELSE n2
        IN IF okn /\ okp THEN [node |-> [n3 EXCEPT ![ap].made = FALSE], ok |-> TRUE]
           ELSE [node |-> nd, ok |-> FALSE]

\* No call has been made on the list of allocators
RegistryIdle(nd) ==
    [initialized |-> 0,
     node |-> [o \in Objects |-> Blank],
     lock |-> 0,
     call |-> [t \in Callers |-> [pc |-> "idle", tp |-> "NULL", ap |-> "NULL"]],
     phase |-> "run",
     cur |-> "NULL",
     ndebug |-> nd,
     ops |-> 0,
     last |-> [op |-> "none", arg |-> "NULL", res |-> "NULL"],
     owned |-> {},
     built |-> <<>>,
     atexit |-> <<>>,
     destroyed |-> <<>>]

\* get_allocator (tp) in thread t: enter_critical ()
GetEnter(t, tp) ==
    /\ reg.phase = "run"
    /\ reg.ops < MaxRegistryCalls
    /\ reg.call[t].pc = "idle"
    /\ enter_critical(reg.lock)
    /\ reg' = [reg EXCEPT !.lock = t,
                          !.ops = reg.ops + 1,
                          !.call[t] = [pc |-> "locked", tp |-> tp, ap |-> "NULL"]]
    /\ UNCHANGED notRegistry

\* get_allocator (tp) in thread t: the module is initialized if it was
\* not (handler: what exit_handler returned) and find_allocator looks for
\* the allocator of the type
GetSearch(t) ==
    /\ reg.phase = "run"
    /\ reg.call[t].pc = "locked"
    /\ \E handler \in (IF reg.initialized # 0 THEN {TRUE} ELSE BOOLEAN) :
          IF ~handler
          THEN reg' = [reg EXCEPT !.call[t].pc = "leave"]
          ELSE LET nd == IF reg.initialized # 0 THEN reg.node
                         ELSE [reg.node EXCEPT
                                 !["head"] = [Blank EXCEPT !.next = "tail"],
                                 !["tail"] = [Blank EXCEPT !.prev = "head"]]
                   f == FindLoop(nd, nd["head"].next, reg.call[t].tp,
                                 Cardinality(Objects))
               IN reg' = [reg EXCEPT
                            !.initialized = 1,
                            !.node = nd,
                            !.phase = IF f.ok THEN "run" ELSE "crash",
                            !.call[t].ap = IF f.found THEN f.ap ELSE "NULL",
                            !.call[t].pc = IF f.found THEN "leave" ELSE "create"]
    /\ UNCHANGED notRegistry

\* get_allocator (tp) in thread t: find_allocator has not found the type,
\* creates the allocator and adds it to the end of the list
GetCreate(t) ==
    /\ reg.phase = "run"
    /\ reg.call[t].pc = "create"
    /\ \E q \in allocate_object(reg.node, reg.call[t].tp) :
       \E created \in Creates(reg.call[t].tp) :
          LET r == new_allocator(reg.node, reg.call[t].tp, q, created) IN
          reg' = [reg EXCEPT
                    !.node = IF r.res = "NULL" THEN r.node
                             ELSE append_allocator(r.node, r.res),
                    !.built = IF r.res = "NULL" THEN reg.built
                              ELSE Append(reg.built, r.res),
                    !.call[t].ap = r.res,
                    !.call[t].pc = "leave"]
    /\ UNCHANGED notRegistry

\* get_allocator (tp) in thread t: leave_critical () and return ap
GetLeave(t) ==
    /\ reg.phase = "run"
    /\ reg.call[t].pc = "leave"
    /\ reg' = [reg EXCEPT
                 !.lock = 0,
                 !.last = [op |-> "get", arg |-> reg.call[t].tp,
                           res |-> reg.call[t].ap],
                 !.call[t].pc = "idle"]
    /\ UNCHANGED notRegistry

\* No get_allocator call is under way.  new_allocator and
\* delete_allocator take no lock; they are called here between the calls
\* of get_allocator.
Quiet ==
    /\ reg.phase = "run"
    /\ \A t \in Callers : reg.call[t].pc = "idle"

\* ap = new_allocator (tp) called by the program itself
NewAllocator(tp) ==
    /\ Quiet
    /\ reg.ops < MaxRegistryCalls
    /\ \E q \in allocate_object(reg.node, tp) : \E created \in Creates(tp) :
          LET r == new_allocator(reg.node, tp, q, created) IN
          reg' = [reg EXCEPT
                    !.node = r.node,
                    !.ops = reg.ops + 1,
                    !.owned = IF r.res = "NULL" THEN reg.owned
                              ELSE reg.owned \cup {r.res},
                    !.last = [op |-> "new", arg |-> tp, res |-> r.res]]
    /\ UNCHANGED notRegistry

\* The sequence without the element
Without(sq, e) == SelectSeq(sq, LAMBDA x : x # e)

\* delete_allocator (ap) on an allocator the program holds, or on null
DeleteAllocator(ap) ==
    /\ Quiet
    /\ reg.ops < MaxRegistryCalls
    /\ IF ap = "NULL" THEN TRUE ELSE reg.node[ap].made
    /\ LET r == delete_allocator(reg.node, ap, ~reg.ndebug) IN
       reg' = [reg EXCEPT
                 !.node = r.node,
                 !.ops = reg.ops + 1,
                 !.phase = IF r.ok THEN "run" ELSE "crash",
                 !.owned = reg.owned \ {ap},
                 !.built = Without(reg.built, ap),
                 !.last = [op |-> "delete", arg |-> ap, res |-> "NULL"]]
    /\ UNCHANGED notRegistry

\* The process exits: run_exit_handlers calls cleanup, which starts from
\* the last allocator of the list
ExitBegin ==
    /\ Quiet
    /\ reg.initialized # 0
    /\ reg' = [reg EXCEPT !.phase = "exit",
                          !.cur = reg.node["tail"].prev,
                          !.atexit = reg.built]
    /\ UNCHANGED notRegistry

\* One turn of the loop of cleanup, or its end
CleanupStep ==
    /\ reg.phase = "exit"
    /\ IF reg.cur \notin Objects \/ Len(reg.destroyed) > Cardinality(Objects)
       THEN reg' = [reg EXCEPT !.phase = "crash"]
       ELSE IF reg.node[reg.cur].prev # "NULL"
       THEN LET r == delete_allocator(reg.node, reg.cur, ~reg.ndebug) IN
            reg' = [reg EXCEPT
                      !.node = r.node,
                      !.phase = IF r.ok THEN "exit" ELSE "crash",
                      !.destroyed = Append(reg.destroyed, reg.cur),
                      !.cur = reg.node[reg.cur].prev]
       ELSE reg' = [reg EXCEPT
                      !.phase = IF /\ ~reg.ndebug
                                   /\ ~(/\ reg.node["head"].next = "tail"
                                        /\ reg.node["tail"].prev = "head")
                                THEN "crash" ELSE "done"]
    /\ UNCHANGED notRegistry

InitRegistry ==
    /\ ArenaUnused
    /\ HarnessLocals([kind |-> "none", t |-> Fail, n |-> 0])
    /\ FaultyIdle
    /\ th = <<>>
    /\ fx = <<>>
    /\ cs = <<>>
    /\ xh = <<>>
    /\ \E nd \in BOOLEAN : reg = RegistryIdle(nd)

\* The calls on the list of allocators, with the types in newtypes given
\* to new_allocator
RegistryStep(newtypes) ==
    \/ \E t \in Callers :
          \/ \E tp \in AllocatorTypes : GetEnter(t, tp)
          \/ GetSearch(t)
          \/ GetCreate(t)
          \/ GetLeave(t)
    \/ \E tp \in newtypes : NewAllocator(tp)
    \/ \E ap \in Objects \cup {"NULL"} : DeleteAllocator(ap)
    \/ ExitBegin
    \/ CleanupStep

\* new_allocator is called on the types whose objects come from the heap
NextRegistry == RegistryStep(HeapTypes)

SpecRegistry == InitRegistry /\ [][NextRegistry]_vars

\* new_allocator is called on every type
NextSingleton == RegistryStep(AllocatorTypes)

SpecSingleton == InitRegistry /\ [][NextSingleton]_vars

----------------------------------------------------------------------------
(* Fixtures and the memory functions of the application *)

\* default_fixture, test_fixture of the faulty allocator and my_fixture of
\* the fixture test
Fixtures == {"default_fixture", "test_fixture", "my_fixture"}

\* get_default_allocator (): fp->get_fixture_allocator (fp), the allocator
\* get_allocator gives for the type of the fixture
get_default_allocator(f, fp) == f.content[fp]

\* The fixture objects: the fixtures above and the fixture that
\* start_thread fills for the thread it starts (the fixture of its thread
\* info; the local tmp where T7_DISABLE_THREADS is defined)
FixtureObjects == Fixtures \cup {"thread_fixture"}

\* The allocator type that the get_fixture_allocator function of each
\* fixture object gives; nothing yet in the fixture of the thread info
StaticContent ==
    [o \in FixtureObjects |->
        CASE o = "default_fixture" -> "default"
          [] o = "test_fixture" -> "faulty"
          [] o = "my_fixture" -> "static"
          [] OTHER -> "NULL"]

\* copy_fixture that fills the fixture from default_fixture
copy_fixture_default(content, dest, src) ==
    [content EXCEPT ![dest] = content["default_fixture"]]

\* Copy fixture object
copy_fixture(content, dest, src) == [content EXCEPT ![dest] = content[src]]

\* get_fixture () that gives every thread the fixture of the first thread
get_fixture_shared(f, t) ==
    IF f.slot[1] # "NULL" THEN f.slot[1] ELSE "default_fixture"

\* Get pointer to current fixture, in thread t: the pointer active where
\* T7_DISABLE_THREADS is defined, else the slot of the thread, or
\* default_fixture when the slot is null
get_fixture(f, t) ==
    IF ~f.threads THEN f.active
    ELSE IF f.slot[t] # "NULL" THEN f.slot[t]
    ELSE "default_fixture"

\* allocator_resize_memory that passes every call to the resize function
allocator_resize_memory_always(p, n) == [fn |-> "resize", p |-> p, n |-> n]

\* Allocate memory from allocator: the function of the allocator type that
\* is called, and its arguments
allocator_allocate_memory(n) ==
    IF n # 0 THEN [fn |-> "grab", p |-> NULL, n |-> n]
    ELSE [fn |-> "none", p |-> NULL, n |-> n]

\* Resize memory using allocator
allocator_resize_memory(p, n) ==
    IF p # NULL
    THEN IF n # 0 THEN [fn |-> "resize", p |-> p, n |-> n]
         ELSE [fn |-> "release", p |-> p, n |-> n]
    ELSE IF n # 0 THEN [fn |-> "grab", p |-> p, n |-> n]
         ELSE [fn |-> "none", p |-> p, n |-> n]

\* Release memory using allocator
allocator_free_memory(p) ==
    IF p # NULL THEN [fn |-> "release", p |-> p, n |-> 0]
    ELSE [fn |-> "none", p |-> p, n |-> 0]

\* The function c.fn of an allocator type called with c.p and c.n: the
\* blocks after it and what it returns; q is the block the allocator
\* picks, NULL when it has none.  The wrappers return null where they call
\* no function or release.
type_function(h, c, q) ==
    CASE c.fn = "grab" -> system_allocate_memory(h, c.n, q)
      [] c.fn = "resize" -> system_resize_memory(h, c.p, c.n, q)
      [] c.fn = "release" -> [heap |-> system_free_memory(h, c.p), res |-> NULL]
      [] c.fn = "none" -> [heap |-> h, res |-> NULL]

\* The sizes passed to the memory functions
MemorySizes == {0, 1, 2}

\* The threads that use the memory functions; the second one exists on
\* the build with threads only
MemoryThreads == {1, 2}

\* The calls of the memory functions and of set_fixture made
MaxMemoryCalls == 4

\* Thread t is running: it has been started and has not returned, and
\* where T7_DISABLE_THREADS is defined it is not inside start_thread,
\* which runs the function of the thread it starts before it returns
CanRun(t) ==
    /\ fx.state[t] = "running"
    /\ fx.threads \/ t = 2 \/ fx.state[2] # "running"

\* set_fixture (fp) in thread t
SetFixture(t, fp) ==
    /\ fx.ops < MaxMemoryCalls
    /\ CanRun(t)
    /\ fx' = [fx EXCEPT !.active = IF fx.threads THEN fx.active ELSE fp,
                        !.slot[t] = IF fx.threads THEN fp ELSE fx.slot[t],
                        !.set[t] = fp,
                        !.ops = fx.ops + 1,
                        !.last = [fx.last EXCEPT !.op = "set", !.t = t]]
    /\ UNCHANGED heap
    /\ UNCHANGED notMemory

\* A memory function called in thread t: get_default_allocator () and the
\* wrapper, which calls function c of the allocator
MemoryCall(t, op, p, n, c) ==
    /\ fx.ops < MaxMemoryCalls
    /\ CanRun(t)
    /\ LET fp == get_fixture(fx, t)
           tp == get_default_allocator(fx, fp)
       IN
       /\ IF p = NULL THEN TRUE ELSE heap[p] # 0 /\ fx.owner[p] = tp
       /\ \E q \in (IF c.fn = "grab" THEN FreeBlocks(heap) \cup {NULL}
                     ELSE IF c.fn = "resize"
                     THEN FreeBlocks(heap) \cup {c.p, NULL}
                     ELSE {NULL}) :
             LET r == type_function(heap, c, q) IN
             /\ heap' = r.heap
             /\ fx' = [fx EXCEPT
                         !.ops = fx.ops + 1,
                         !.owner = [b \in DOMAIN heap |->
                                      IF b = r.res THEN tp ELSE fx.owner[b]],
                         !.last = [op |-> op, t |-> t, p |-> p, n |-> n,
                                   fixture |-> fp, type |-> tp, fn |-> c.fn,
                                   fp |-> c.p, fa |-> c.n, res |-> r.res]]
    /\ UNCHANGED notMemory

\* p = allocate_memory (n)
AllocateMemory(t, n) ==
    MemoryCall(t, "allocate", NULL, n, allocator_allocate_memory(n))

\* q = resize_memory (p, n)
ResizeMemory(t, p, n) ==
    MemoryCall(t, "resize", p, n, allocator_resize_memory(p, n))

\* free_memory (p)
FreeMemory(t, p) ==
    MemoryCall(t, "free", p, 0, allocator_free_memory(p))

InitMemory ==
    /\ ArenaUnused
    /\ HarnessLocals([kind |-> "none", t |-> Fail, n |-> 0])
    /\ FaultyIdle
    /\ th = <<>>
    /\ reg = <<>>
    /\ cs = <<>>
    /\ xh = <<>>
    /\ \E b \in BOOLEAN :
          fx = [threads |-> b,
                active |-> "default_fixture",
                slot |-> [t \in MemoryThreads |-> "NULL"],
                set |-> [t \in MemoryThreads |-> "NULL"],
                content |-> StaticContent,
                state |-> [t \in MemoryThreads |->
                             IF b \/ t = 1 THEN "running" ELSE "unborn"],
                born |-> [fp |-> "NULL", type |-> "NULL"],
                owner |-> [k \in 1..MaxBlocks |-> "NULL"],
                ops |-> 0,
                last |-> [op |-> "none", t |-> 1, p |-> NULL, n |-> 0,
                          fixture |-> "NULL", type |-> "NULL", fn |-> "none",
                          fp |-> NULL, fa |-> 0, res |-> NULL]]

NextMemory ==
    \E t \in MemoryThreads :
        \/ \E fp \in Fixtures : SetFixture(t, fp)
        \/ \E n \in MemorySizes : AllocateMemory(t, n)
        \/ \E p \in DOMAIN heap \cup {NULL} : \E n \in MemorySizes :
              ResizeMemory(t, p, n)
        \/ \E p \in DOMAIN heap \cup {NULL} : FreeMemory(t, p)

SpecMemory == InitMemory /\ [][NextMemory]_vars

\* start_thread (tp) called by thread t for thread u: the fixture of t is
\* copied for u (born records it).  With pthreads the thread is created
\* and runs entry () later; where T7_DISABLE_THREADS is defined the copy
\* is made the active fixture and the function of u runs now.
StartThreadFixture(t, u) ==
    /\ CanRun(t)
    /\ fx.state[u] = "unborn"
    /\ LET orig == get_fixture(fx, t) IN
       fx' = [fx EXCEPT
                !.content = copy_fixture(fx.content, "thread_fixture", orig),
                !.born = [fp |-> orig, type |-> fx.content[orig]],
                !.active = IF fx.threads THEN fx.active ELSE "thread_fixture",
                !.set[u] = IF fx.threads THEN fx.set[u] ELSE "thread_fixture",
                !.state[u] = IF fx.threads THEN "created" ELSE "running"]
    /\ UNCHANGED heap
    /\ UNCHANGED notMemory

\* entry (arg) in the new thread u: set_fixture (&ip->fixture), then the
\* thread function runs
ThreadEntry(u) ==
    /\ fx.state[u] = "created"
    /\ fx' = [fx EXCEPT !.slot[u] = "thread_fixture",
                        !.set[u] = "thread_fixture",
                        !.state[u] = "running"]
    /\ UNCHANGED heap
    /\ UNCHANGED notMemory

\* The function of thread u returns; where T7_DISABLE_THREADS is defined
\* start_thread then restores the fixture it found
ThreadDone(u) ==
    /\ fx.state[u] = "running"
    /\ fx.born.fp # "NULL"
    /\ fx' = [fx EXCEPT
                !.active = IF fx.threads THEN fx.active ELSE fx.born.fp,
                !.set[1] = IF fx.threads THEN fx.set[1] ELSE fx.born.fp,
                !.state[u] = "done"]
    /\ UNCHANGED heap
    /\ UNCHANGED notMemory

\* The main thread alone; it may set fixtures before it starts a thread
InitInherit ==
    /\ ArenaUnused
    /\ HarnessLocals([kind |-> "none", t |-> Fail, n |-> 0])
    /\ FaultyIdle
    /\ th = <<>>
    /\ reg = <<>>
    /\ cs = <<>>
    /\ xh = <<>>
    /\ \E b \in BOOLEAN :
          fx = [threads |-> b,
                active |-> "default_fixture",
                slot |-> [t \in MemoryThreads |-> "NULL"],
                set |-> [t \in MemoryThreads |-> "NULL"],
                content |-> StaticContent,
                state |-> [t \in MemoryThreads |->
                             IF t = 1 THEN "running" ELSE "unborn"],
                born |-> [fp |-> "NULL", type |-> "NULL"],
                owner |-> [k \in 1..MaxBlocks |-> "NULL"],
                ops |-> 0,
                last |-> [op |-> "none", t |-> 1, p |-> NULL, n |-> 0,
                          fixture |-> "NULL", type |-> "NULL", fn |-> "none",
                          fp |-> NULL, fa |-> 0, res |-> NULL]]

NextInherit ==
    \/ \E t \in MemoryThreads :
          \/ \E fp \in Fixtures : SetFixture(t, fp)
          \/ \E n \in MemorySizes : AllocateMemory(t, n)
    \/ StartThreadFixture(1, 2)
    \/ ThreadEntry(2)
    \/ ThreadDone(2)

\* A thread started by start_thread among the calls of set_fixture and
\* of the memory functions
SpecInherit == InitInherit /\ [][NextInherit]_vars

\* ---------------------------------------------------------------------
\* The critical section (enter_critical, leave_critical)
\* ---------------------------------------------------------------------

\* The threads that use the critical section
CsThreads == {1, 2, 3}

\* No thread: the owner of a mutex that is not locked
NoThread == 0

\* What a thread does, as the sequence of its steps:
\*   increments - the thread function of t-thread.c: value = counter++
\*       inside the critical section;
\*   recursive - main of the recursion test: recursive_test () called
\*       inside the critical section;
\*   relocate - static_resize_memory on its relocation path: inside the
\*       critical section relocate_node calls grab and then release, each
\*       of which enters and leaves the critical section;
\*   exhausted - the same when grab returns null: release is not called
Programs ==
    [increments |-> <<"enter", "read", "write", "leave">>,
     recursive |-> <<"enter", "enter", "read", "write", "leave", "leave">>,
     relocate |-> <<"enter", "enter", "leave", "enter", "leave", "leave">>,
     exhausted |-> <<"enter", "enter", "leave", "leave">>]

\* A mutex of the default type
init_pthread_normal == "normal"

\* init_pthread: the type of the mutex it initializes
init_pthread == "recursive"

\* pthread_mutex_lock that never waits
MutexFreeAlways(m, t) == TRUE

\* pthread_mutex_lock (&critical_section) in thread t returns without
\* waiting: the mutex is not locked, or it is recursive and t holds it
MutexFree(m, t) ==
    \/ m.owner = NoThread
    \/ m.type = "recursive" /\ m.owner = t

\* The mutex after pthread_mutex_lock in thread t has returned
pthread_mutex_lock(m, t) == [m EXCEPT !.owner = t, !.count = m.count + 1]

\* The mutex after pthread_mutex_unlock in thread t
pthread_mutex_unlock(m, t) ==
    [m EXCEPT !.count = m.count - 1,
              !.owner = IF m.count = 1 THEN NoThread ELSE m.owner]

\* The step that thread t is to make next, "done" after the last
CsStepOf(t) ==
    LET prog == Programs[cs.t[t].prog] IN
    IF cs.t[t].pos > Len(prog) THEN "done" ELSE prog[cs.t[t].pos]

\* Thread t is inside its thread function
CsStarted(t) == cs.t[t].pos > 1 /\ CsStepOf(t) # "done"

\* Thread t can run: where T7_DISABLE_THREADS is defined start_thread
\* runs the thread function itself, one thread after the other
CsCanRun(t) == cs.threads \/ \A u \in CsThreads \ {t} : ~CsStarted(u)

\* Thread t is past its step
CsAdvance(c, t) == [c EXCEPT !.t[t].pos = @ + 1]

\* enter_critical () in thread t: nothing where T7_DISABLE_THREADS is
\* defined; else pthread_once (&once, init_pthread) and then
\* pthread_mutex_lock, which waits while another thread holds the mutex
EnterCritical(t) ==
    /\ CsStepOf(t) = "enter"
    /\ CsCanRun(t)
    /\ IF cs.threads
       THEN LET m == IF cs.once THEN cs.mutex
                     ELSE [type |-> init_pthread, owner |-> NoThread,
                           count |-> 0]
            IN
            /\ MutexFree(m, t)
            /\ cs' = [CsAdvance(cs, t) EXCEPT
                        !.once = TRUE,
                        !.mutex = pthread_mutex_lock(m, t),
                        !.t[t].depth = @ + 1]
       ELSE cs' = [CsAdvance(cs, t) EXCEPT !.t[t].depth = @ + 1]
    /\ UNCHANGED notCritical

\* leave_critical () in thread t
LeaveCritical(t) ==
    /\ CsStepOf(t) = "leave"
    /\ CsCanRun(t)
    /\ IF cs.threads
       THEN cs' = [CsAdvance(cs, t) EXCEPT
                     !.mutex = pthread_mutex_unlock(cs.mutex, t),
                     !.t[t].depth = @ - 1]
       ELSE cs' = [CsAdvance(cs, t) EXCEPT !.t[t].depth = @ - 1]
    /\ UNCHANGED notCritical

\* The read of counter in value = counter++
ReadCounter(t) ==
    /\ CsStepOf(t) = "read"
    /\ CsCanRun(t)
    /\ cs' = [CsAdvance(cs, t) EXCEPT !.t[t].value = cs.counter]
    /\ UNCHANGED notCritical

\* The write of counter in value = counter++
WriteCounter(t) ==
    /\ CsStepOf(t) = "write"
    /\ CsCanRun(t)
    /\ cs' = [CsAdvance(cs, t) EXCEPT !.counter = cs.t[t].value + 1]
    /\ UNCHANGED notCritical

\* The critical section before any thread has entered it
InitCritical ==
    /\ ArenaUnused
    /\ HarnessLocals([kind |-> "none", t |-> Fail, n |-> 0])
    /\ FaultyIdle
    /\ th = <<>>
    /\ reg = <<>>
    /\ fx = <<>>
    /\ xh = <<>>
    /\ \E b \in BOOLEAN : \E pr \in [CsThreads -> DOMAIN Programs] :
          cs = [threads |-> b,
                once |-> FALSE,
                mutex |-> [type |-> "none", owner |-> NoThread, count |-> 0],
                counter |-> 0,
                t |-> [t \in CsThreads |->
                         [prog |-> pr[t], pos |-> 1, value |-> NULL,
                          depth |-> 0]]]

NextCritical ==
    \E t \in CsThreads :
        \/ EnterCritical(t)
        \/ ReadCounter(t)
        \/ WriteCounter(t)
        \/ LeaveCritical(t)

\* Threads that increment the counter in the critical section, as those
\* of test_increments, and threads that enter the critical section inside
\* the critical section
SpecCritical == InitCritical /\ [][NextCritical]_vars

\* ---------------------------------------------------------------------
\* Exit handlers (exit-handler.c)
\* ---------------------------------------------------------------------

\* The size of the table handlers (50 by default in CMakeLists.txt)
T7_MAX_EXIT_HANDLERS == 5

\* The exit functions of t-exit-handler.c
ExitFunctions == {"exit1", "exit2", "exit3", "exit4", "exit5"}

\* The priority each is registered with in t-exit-handler.c
TestPriority ==
    [exit1 |-> 0, exit2 |-> 0, exit3 |-> 1, exit4 |-> 99999, exit5 |-> 100]

\* The priorities an exit function is registered with here
Priorities(f) == IF f = "exit3" THEN {0, 1} ELSE {TestPriority[f]}

\* The threads that call exit_handler
ExitThreads == {1, 2}

\* The builds: with pthreads, with T7_DISABLE_THREADS, and with WIN32
\* and T7_DISABLE_THREADS, where terminate () returns
ExitBuilds == {"pthread", "nothreads", "win32"}

\* Calls of exit_handler in one run
MaxExitCalls == 6

\* Calls of exit_handler in one run with two threads
MaxRaceCalls == 3

\* is_registered (f)
is_registered(h, f) == \E i \in 1..Len(h) : h[i].f = f

\* The loop of add_exit_handler that also passes the handlers of the
\* same priority
FindPositionBehind(h, priority, i) ==
    LET upto == {k \in 0..Len(h) :
                   \A j \in 1..k : priority <= h[j].priority}
    IN CHOOSE k \in upto : \A m \in upto : m <= k

\* The loop of add_exit_handler: the first position from i, counted from
\* 0, that is count or holds a handler whose priority is not above
\* priority
RECURSIVE FindPosition(_, _, _)
FindPosition(h, priority, i) ==
    IF i < Len(h) /\ priority < h[i + 1].priority
    THEN FindPosition(h, priority, i + 1)
    ELSE i

\* add_exit_handler (f, priority) between enter_protected and
\* leave_protected: the table, the result ok and whether terminate ()
\* was called
add_exit_handler(h, f, priority) ==
    IF ~is_registered(h, f) /\ Len(h) < T7_MAX_EXIT_HANDLERS
    THEN LET i == FindPosition(h, priority, 0) IN
         [handlers |-> SubSeq(h, 1, i) \o <<[f |-> f, priority |-> priority]>>
                         \o SubSeq(h, i + 1, Len(h)),
          ok |-> 1, terminated |-> FALSE]
    ELSE IF Len(h) < T7_MAX_EXIT_HANDLERS
    THEN [handlers |-> h, ok |-> 0, terminated |-> FALSE]
    ELSE [handlers |-> h, ok |-> 0, terminated |-> TRUE]

\* No call of exit_handler
NoCall == [pc |-> "idle", f |-> "NULL", priority |-> 0, ok |-> 0]

\* The module before the first call, on build b, for n calls
ExitIdle(b, n) ==
    [build |-> b,
     limit |-> n,
     handlers |-> <<>>,
     initialized |-> 0,
     lock |-> 0,
     atexit |-> 0,
     call |-> [t \in ExitThreads |-> NoCall],
     phase |-> "running",
     pending |-> 0,
     ops |-> 0,
     order |-> <<>>,
     invoked |-> <<>>]

\* exit_handler (f, priority) called in thread t: the test of initialized
ExitHandler(t, f, priority) ==
    /\ xh.phase = "running"
    /\ xh.ops < xh.limit
    /\ xh.call[t].pc = "idle"
    /\ xh' = [xh EXCEPT
                !.ops = xh.ops + 1,
                !.call[t] = [pc |-> IF xh.initialized # 0 THEN "add"
                                    ELSE "atexit",
                             f |-> f, priority |-> priority, ok |-> 0]]
    /\ UNCHANGED notExit

\* exit_handler in thread t found initialized zero: atexit
\* (run_exit_handlers) and initialized = 1
RegisterAtexit(t) ==
    /\ xh.phase = "running"
    /\ xh.call[t].pc = "atexit"
    /\ xh' = [xh EXCEPT !.atexit = xh.atexit + 1,
                        !.initialized = 1,
                        !.call[t].pc = "add"]
    /\ UNCHANGED notExit

\* add_exit_handler in thread t, from enter_protected to leave_protected
\* and the return of exit_handler; terminate () aborts the process
\* except where WIN32 is defined
AddExitHandler(t) ==
    /\ xh.phase = "running"
    /\ xh.call[t].pc = "add"
    /\ xh.lock = 0
    /\ LET c == xh.call[t]
           r == add_exit_handler(xh.handlers, c.f, c.priority)
       IN
       xh' = [xh EXCEPT
                !.handlers = r.handlers,
                !.order = IF r.ok = 1 THEN Append(xh.order, c.f) ELSE xh.order,
                !.phase = IF r.terminated /\ xh.build # "win32"
                          THEN "aborted" ELSE "running",
                !.call[t] = [c EXCEPT !.pc = "idle", !.ok = r.ok]]
    /\ UNCHANGED notExit

\* The process exits when no call of exit_handler is under way: the
\* functions registered with atexit are to run
ProcessExit ==
    /\ xh.phase = "running"
    /\ \A t \in ExitThreads : xh.call[t].pc = "idle"
    /\ xh' = [xh EXCEPT !.phase = "exit", !.pending = xh.atexit]
    /\ UNCHANGED notExit

\* run_exit_handlers, called once for every time it was registered
RunExitHandlers ==
    /\ xh.phase = "exit"
    /\ xh.pending > 0
    /\ xh' = [xh EXCEPT
                !.pending = xh.pending - 1,
                !.invoked = xh.invoked \o
                            [i \in 1..Len(xh.handlers) |-> xh.handlers[i].f]]
    /\ UNCHANGED notExit

\* The exit handler module before the first call, bs the builds and n
\* the number of calls
InitExitOn(bs, n) ==
    /\ ArenaUnused
    /\ HarnessLocals([kind |-> "none", t |-> Fail, n |-> 0])
    /\ FaultyIdle
    /\ th = <<>>
    /\ reg = <<>>
    /\ fx = <<>>
    /\ cs = <<>>
    /\ \E b \in bs : xh = ExitIdle(b, n)

\* The steps of the threads ts
ExitStep(ts) ==
    \/ \E t \in ts : \E f \in ExitFunctions : \E priority \in Priorities(f) :
          ExitHandler(t, f, priority)
    \/ \E t \in ts : RegisterAtexit(t)
    \/ \E t \in ts : AddExitHandler(t)
    \/ ProcessExit
    \/ RunExitHandlers

InitExit == InitExitOn(ExitBuilds, MaxExitCalls)

NextExit == ExitStep({1})

\* One thread registers exit functions and the process exits
SpecExit == InitExit /\ [][NextExit]_vars

InitExitRace == InitExitOn({"pthread"}, MaxRaceCalls)

NextExitRace == ExitStep(ExitThreads)

\* Two threads register exit functions and the process exits
SpecExitRace == InitExitRace /\ [][NextExitRace]_vars

\* A test function makes up to MaxOver calls more than MAX_RECURSION
MaxOver == 2

\* Test functions that make about MAX_RECURSION calls in one execution
DeepFunctions ==
    {[kind |-> "deep", t |-> Fail, n |-> n] :
        n \in (MAX_RECURSION - 1)..(MAX_RECURSION + MaxOver)}

InitDeep ==
    /\ \E w \in BOOLEAN : ArenaUnusedOn(w)
    /\ \E f \in DeepFunctions : HarnessIdle(f)

\* repeat_test on test functions that reach the ceiling of the call counter
SpecDeep == InitDeep /\ [][NextHarness]_vars

----------------------------------------------------------------------------
(* Claims about the harness *)

\* Number of calls of an execution that reported fail
NumFails(o) == Cardinality({j \in 1..Len(o) : o[j] = 1})

\* Number of calls of an execution that reported do-not-fail before the
\* first call that reported fail
RECURSIVE SuccessPrefix(_)
SuccessPrefix(o) ==
    IF o = <<>> \/ Head(o) = 1 THEN 0 ELSE 1 + SuccessPrefix(Tail(o))

\* The call results along every path of a tree from its root to a return
RECURSIVE Paths(_)
Paths(t) ==
    IF t.op = "ret" THEN {<<>>}
    ELSE {<<1>> \o q : q \in Paths(t.f)} \cup {<<0>> \o q : q \in Paths(t.s)}

\* The tree returns at its first failed call
RECURSIVE StopsTree(_)
StopsTree(t) == t.op = "ret" \/ (t.f.op = "ret" /\ StopsTree(t.s))

\* The test function makes no simulate_failure call after a failed one
StopsAtFailure(f) ==
    \/ f.kind = "seq"
    \/ f.kind = "tree" /\ StopsTree(f.t)

\* Number of simulate_failure calls on the path where no call fails
RECURSIVE SucceedDepth(_)
SucceedDepth(t) == IF t.op = "ret" THEN 0 ELSE 1 + SucceedDepth(t.s)

AllSucceedCalls(f) == IF f.kind = "seq" THEN f.n ELSE SucceedDepth(f.t)

\* C3: a sequential test function needing N successful calls is executed
\* N+1 times; execution k <= N sees k-1 calls succeed and call k fail,
\* execution N+1 sees no call fail, and repeat_test returns success.
C3_SequentialExecutions ==
    fn.kind = "seq" =>
        /\ Len(runs) <= fn.n + 1
        /\ \A k \in 1..Len(runs) :
              /\ Len(runs[k]) = Min(k, fn.n)
              /\ \A j \in 1..Len(runs[k]) :
                    runs[k][j] = (IF j = k THEN 1 ELSE 0)
        /\ pc = "returned" => Len(runs) = fn.n + 1 /\ ok = 1

C3_Witness ==
    /\ pc = "returned"
    /\ fn.kind = "seq" /\ fn.n = 100
    /\ Len(runs) = 101
    /\ ok = 1

\* C4: for a deterministic test function that branches on the results of
\* simulate_failure (fallbacks after a failed call included), one
\* repeat_test run takes every path of the function exactly once and ends
\* with the path on which no call fails.
C4_EveryPathOnce ==
    fn.kind = "tree" =>
        /\ \A j, k \in 1..Len(runs) : j # k => runs[j] # runs[k]
        /\ \A k \in 1..Len(runs) : runs[k] \in Paths(fn.t)
        /\ pc = "returned" =>
              /\ {runs[k] : k \in 1..Len(runs)} = Paths(fn.t)
              /\ NumFails(runs[Len(runs)]) = 0

C4_Witness ==
    /\ pc = "returned"
    /\ fn.kind = "tree" /\ fn.t = handler2
    /\ Len(runs) = 4
    /\ runs[1] = <<1, 1, 1>>

\* C5 as claimed: no execution has two calls that report fail.
C5_AtMostOneFailure ==
    /\ NumFails(outs) <= 1
    /\ \A k \in 1..Len(runs) : NumFails(runs[k]) <= 1

\* C5 as amended: when the test function returns at its first failed call,
\* every execution that repeat_test follows by another has exactly one
\* failing call, its last, and the execution after which repeat_test
\* returns has none.
C5_OneFailureWhenStopping ==
    StopsAtFailure(fn) =>
        /\ NumFails(outs) <= 1
        /\ \A k \in 1..Len(runs) :
              /\ NumFails(runs[k]) <= 1
              /\ k < Len(runs) =>
                    NumFails(runs[k]) = 1 /\ runs[k][Len(runs[k])] = 1
        /\ pc = "returned" => NumFails(runs[Len(runs)]) = 0

C5_Witness ==
    /\ pc = "returned"
    /\ fn.kind = "tree" /\ fn.t = fourth
    /\ Len(runs) = 4
    /\ NumFails(runs[3]) = 1

\* C6 as claimed: at most (calls on the all-succeed path + 1) executions,
\* each with a strictly longer prefix of succeeding calls than the one
\* before.
C6_CallsPlusOneExecutions ==
    fn.kind \in {"tree", "seq"} =>
        /\ Len(runs) <= AllSucceedCalls(fn) + 1
        /\ \A k \in 2..Len(runs) :
              SuccessPrefix(runs[k]) > SuccessPrefix(runs[k - 1])

\* C6 as amended: the bound and the growing prefix hold for the test
\* functions that return at their first failed call.
C6_CallsPlusOneWhenStopping ==
    StopsAtFailure(fn) =>
        /\ Len(runs) <= AllSucceedCalls(fn) + 1
        /\ \A k \in 2..Len(runs) :
              SuccessPrefix(runs[k]) > SuccessPrefix(runs[k - 1])

C6_Witness ==
    /\ pc = "returned"
    /\ fn.kind = "tree" /\ fn.t = Call(Fail, Call(Pass, Fail))
    /\ Len(runs) = 3

\* The simulation vector a comes before b: at the first index below n where
\* they differ, a has 0 and b has 1
VectorLess(a, b, n) ==
    \E i \in 0..(n - 1) :
        /\ getbit(a, i) < getbit(b, i)
        /\ \A j \in 0..(i - 1) : getbit(a, j) = getbit(b, j)

\* C7: repeat_test eventually returns, for every test function (the
\* nondeterministic ones included) whose executions end and stay below
\* MAX_RECURSION calls; between two executions the simulation vector
\* strictly decreases.
C7_RepeatTestReturns ==
    /\ <>(pc = "returned")
    /\ [][pc = "check" /\ pc' = "loop" =>
            VectorLess(frame'.simulate, frame.simulate, frame.count)]_vars

C7_Witness ==
    /\ pc = "returned"
    /\ fn.kind = "nondet"
    /\ Len(runs) >= 4
    /\ ok = 0

----------------------------------------------------------------------------
(* Claims about the arena *)

\* The offsets of the nodes met by following the node sizes from offset a,
\* up to the buffer end or the first header that cannot be followed
RECURSIVE NodeWalk(_, _, _)
NodeWalk(m, sz, a) ==
    IF ~InBuffer(sz, a) \/ SizeBits(ReadWord(m, a)) < HeaderSize THEN <<>>
    ELSE <<a>> \o NodeWalk(m, sz, a + SizeBits(ReadWord(m, a)))

\* Sum of the sizes of the nodes at the offsets of the sequence
RECURSIVE SumSizes(_, _)
SumSizes(m, nodes) ==
    IF nodes = <<>> THEN 0
    ELSE SizeBits(ReadWord(m, Head(nodes))) + SumSizes(m, Tail(nodes))

\* C1: the payload regions of the live allocations lie inside the buffer
\* and no two of them overlap.
C1_LiveRegionsDisjoint ==
    /\ \A p \in live :
          /\ p >= HeaderSize
          /\ Usable(mem, p) >= 0
          /\ p + Usable(mem, p) <= size
    /\ \A p, q \in live :
          p # q => p + Usable(mem, p) <= q \/ q + Usable(mem, q) <= p

C1_Witness ==
    /\ last.op = "grab" /\ last.res # NULL
    /\ Cardinality(live) >= 2
    /\ \E p \in live : p > last.res
    /\ \E p \in live : p < last.res

\* C2: following the node sizes from the buffer start lands exactly on the
\* buffer end, the sizes sum to the buffer size, every size with the flag
\* masked off is at least the header size, and no node passes the end.
C2_BufferPartitioned ==
    LET nodes == NodeWalk(mem, size, 0) IN
    /\ nodes # <<>>
    /\ \A k \in 1..Len(nodes) :
          /\ SizeBits(ReadWord(mem, nodes[k])) >= HeaderSize
          /\ nodes[k] + SizeBits(ReadWord(mem, nodes[k])) <= size
    /\ nodes[Len(nodes)] + SizeBits(ReadWord(mem, nodes[Len(nodes)])) = size
    /\ SumSizes(mem, nodes) = size

C2_Witness ==
    /\ last.op = "grab" /\ last.res # NULL
    /\ calls >= 4
    /\ start = 0
    /\ Len(NodeWalk(mem, size, 0)) = 1
    /\ live = {last.res}
    /\ ReadWord(mem, 2 * HeaderSize) = size - 2 * HeaderSize

\* C8: after a successful static_resize_memory(p, n) the first
\* min(old usable size, n) bytes of the returned region are the bytes the
\* old region held just before the call.
C8_ResizePreservesContent ==
    [][(calls' = calls + 1 /\ last'.op = "resize" /\ last'.res # NULL) =>
          \A i \in 0..(Min(Usable(mem, last'.p), last'.n) - 1) :
              ReadWord(mem', last'.res + i) = ReadWord(mem, last'.p + i)]_vars

C8_Witness ==
    /\ win32 /\ ndebug
    /\ last.op = "resize"
    /\ last.res # NULL /\ last.res # last.p
    /\ ReadWord(mem, last.res) = ByteWord(255)

\* C9: when static_resize_memory(p, n) returns null, the node of p is
\* still allocated with the size it had, its payload is unchanged, and no
\* other live region has changed.
C9_FailedResizeKeepsRegions ==
    [][(calls' = calls + 1 /\ last'.op = "resize" /\ last'.res = NULL) =>
          /\ live' = live
          /\ last'.p \in live
          /\ ReadWord(mem', last'.p - HeaderSize) % 2 = 1
          /\ \A q \in live :
                /\ ReadWord(mem', q - HeaderSize) = ReadWord(mem, q - HeaderSize)
                /\ \A i \in 0..(Usable(mem, q) - 1) :
                      ReadWord(mem', q + i) = ReadWord(mem, q + i)]_vars

C9_Witness ==
    /\ last.op = "resize" /\ last.res = NULL
    /\ last.p \in live
    /\ Cardinality(live) >= 2
    /\ ReadWord(mem, last.p) = Pattern(0)

\* C10: on the fresh 1024-byte arena grab(1000) succeeds, the grab(1000)
\* right after it returns null, the resize of the first region to 100
\* bytes succeeds in place, and the grab(800) after that succeeds.
C10_ShrinkFreesTail ==
    /\ step = 1 => last.op = "grab" /\ last.res # NULL
    /\ step = 2 => last.op = "grab" /\ last.res = NULL
    /\ step = 3 => last.op = "resize" /\ last.res = last.p
    /\ step = 4 => last.op = "grab" /\ last.res # NULL

C10_Witness ==
    /\ size = TestBufferSize
    /\ step = 4
    /\ last.op = "grab" /\ last.n = 800 /\ last.res # NULL
    /\ Cardinality(live) = 2

\* The nodes static_grab_memory(n) visits when called in the current state
GrabVisits(n) ==
    GrabFuel(size) - static_grab_memory(mem, size, start, n).left + 1

\* C11: static_grab_memory returns from every reachable arena state, also
\* when its scan merges the node start designates into a free node before
\* it; it visits at most twice as many nodes as the buffer holds.
C11_GrabTerminates ==
    [][calls' = calls + 1 /\ last'.op \in {"grab", "hang"} =>
          /\ last'.op = "grab"
          /\ static_grab_memory(mem, size, start, last'.n).res # DIVERGED
          /\ GrabVisits(last'.n) <= 2 * Len(NodeWalk(mem, size, 0))]_vars

C11_Witness ==
    /\ last.op = "grab" /\ last.res = NULL
    /\ last.from > 0
    /\ start # last.from
    /\ last.from \notin { NodeWalk(mem, size, 0)[k] :
                              k \in 1..Len(NodeWalk(mem, size, 0)) }

\* Some run of adjacent free nodes of the buffer, not wrapping around its
\* end, has a combined size of at least need
FreeRunExists(m, sz, need) ==
    LET nodes == NodeWalk(m, sz, 0) IN
    \E i \in 1..Len(nodes) : \E j \in i..Len(nodes) :
        /\ \A k \in i..j : is_free(m, nodes[k])
        /\ SumSizes(m, SubSeq(nodes, i, j)) >= need

SecondHeld == cyc.pos \in 7..11

\* The words of the 12-byte region hold what fill_memory (p2, 'a', 12) wrote
SecondIntact ==
    /\ ReadWord(mem, cyc.p2) = ByteWord(97)
    /\ ReadWord(mem, cyc.p2 + HeaderSize) = ByteWord(97)

\* C13: repeating (grab 15, grab 12, resize the first to 55, resize the
\* first to 10, release both) on one arena, every grab and resize of every
\* round succeeds, so the test stops only after its last round, and the
\* 12-byte region keeps its content from its fill to its release.
C13_CycleNeverFails ==
    /\ last.op \notin {"abort", "hang"}
    /\ cyc.pos = 0 => cyc.count = MaxCycles
    /\ SecondHeld => SecondIntact

\* The _WIN32 build on an arena with room to spare: the first round's resize
\* to 55 bytes has to relocate and the wrong copy ends the process
C13_Witness ==
    /\ win32
    /\ size = 16 * MaxCycleUnits
    /\ cyc.count = 0
    /\ last.op = "abort" /\ last.n = 55
    /\ last.p \in live /\ cyc.p2 \in live
    /\ cyc.p2 = last.p + roundup(15)
\* A newly created arena of the same size satisfies a grab of n bytes
FreshSatisfies(n) ==
    static_grab_memory(FreshBuffer(size, ndebug), size, 0, n).res # NULL

\* C14: once every region has been released, a grab of any size that a
\* newly created arena of the same size satisfies succeeds, however the
\* free space is split into nodes and wherever start was left.
C14_AllReleasedRecovers ==
    (live = {} /\ last.op \notin {"abort", "hang"}) =>
        \A n \in 1..size :
            FreshSatisfies(n) =>
                LET r == static_grab_memory(mem, size, start, n) IN
                r.ok /\ r.res \notin {NULL, DIVERGED}

\* Everything has been released, the free space is left in three or more
\* nodes and start is not at the first of them; a grab of the whole buffer
\* takes the node at offset 0
C14_Witness ==
    /\ live = {}
    /\ last.op = "release"
    /\ start > 0
    /\ Len(NodeWalk(mem, size, 0)) >= 3
    /\ FreshSatisfies(size - HeaderSize)
    /\ static_grab_memory(mem, size, start, size - HeaderSize).res = HeaderSize
\* C15: a successful grab of n > 0 bytes returns a pointer one header past
\* the start of a node, aligned to the word size, and the node's size minus
\* the header is at least n.
C15_GrabReturnsUsableRegion ==
    (last.op = "grab" /\ last.res # NULL) =>
        /\ \E k \in 1..Len(NodeWalk(mem, size, 0)) :
               NodeWalk(mem, size, 0)[k] = last.res - HeaderSize
        /\ last.res % HeaderSize = 0
        /\ ~ULess(Usable(mem, last.res), last.n)

\* A build without assertions was asked for SIZE_MAX bytes and returned a
\* region with no usable byte: the pointer is the header of the next node
C15_Witness ==
    /\ ndebug
    /\ last.op = "grab" /\ last.n = SIZE_MAX
    /\ last.res # NULL
    /\ Usable(mem, last.res) = 0
    /\ is_free(mem, last.res)
----------------------------------------------------------------------------
(* Claims about the results of repeat_test *)

\* The test function follows its code: it is not the one that may do
\* anything
Deterministic(f) == f.kind \in {"tree", "seq"}

\* What a deterministic test function returns after the call results o
Returns(f, o) == IF "pass" \in Moves(f, o) THEN 1 ELSE 0

\* The test function makes no simulate_failure call
NeverCalls(f) == Deterministic(f) /\ "call" \notin Moves(f, <<>>)

\* C16: a test function that never calls simulate_failure is invoked
\* exactly once by repeat_test, and repeat_test returns what that
\* invocation returned.
C16_NoCallRunsOnce ==
    NeverCalls(fn) =>
        /\ pc \in {"idle", "loop", "exec", "check", "returned"}
        /\ pc \in {"idle", "loop", "exec"} => runs = <<>>
        /\ pc \in {"check", "returned"} => runs = << <<>> >>
        /\ pc = "check" => frame.triggered = 0
        /\ pc = "returned" => ok = Returns(fn, <<>>)

\* repeat_test has returned failure for a function that returned failure
\* at once
C16_Witness ==
    /\ pc = "returned"
    /\ fn = [kind |-> "tree", t |-> never, n |-> 0]
    /\ Len(runs) = 1
    /\ ok = 0
\* C17: repeat_test returns the value the last execution of the test
\* function returned; that execution is the first one in which no call
\* reported fail, whatever the earlier executions returned.
C17_ReturnsLastExecution ==
    pc = "returned" =>
        /\ runs # <<>>
        /\ NumFails(runs[Len(runs)]) = 0
        /\ \A k \in 1..(Len(runs) - 1) : NumFails(runs[k]) > 0
        /\ Deterministic(fn) => ok = Returns(fn, runs[Len(runs)])

\* repeat_test has returned failure although the first execution of the
\* test function returned success
C17_Witness ==
    /\ pc = "returned"
    /\ Deterministic(fn)
    /\ Len(runs) >= 2
    /\ Returns(fn, runs[1]) = 1
    /\ ok = 0
\* One execution of the tree t on the frame fr: the frame it leaves, the
\* results of its calls and the value it returns
RECURSIVE ExecTree(_, _, _)
ExecTree(t, fr, o) ==
    IF t.op = "ret" THEN [frame |-> fr, outs |-> o, v |-> t.v]
    ELSE LET r == simulate_failure("frame", fr) IN
         ExecTree(IF r.res = 1 THEN t.f ELSE t.s, r.frame, Append(o, r.res))

\* The do loop of repeat_test on the tree t entered with the frame fr,
\* acc the executions made so far
RECURSIVE RepeatLoop(_, _, _)
RepeatLoop(t, fr, acc) ==
    LET e == ExecTree(t, NewIteration(fr), <<>>) IN
    IF e.frame.triggered # 0
    THEN RepeatLoop(t,
                    [e.frame EXCEPT
                        !.simulate = NextVector(e.frame.simulate, e.frame.count)],
                    Append(acc, e.outs))
    ELSE [runs |-> Append(acc, e.outs), ok |-> e.v]

\* repeat_test on the tree t run alone: its executions and its result
RunAlone(t) ==
    RepeatLoop(t, [triggered |-> 0, count |-> 0, simulate |-> AllSet], <<>>)

\* C18: a repeat_test called by a test function starts from a frame of its
\* own with every bit set, makes the executions it makes when run alone and
\* returns their result; the calls made meanwhile leave the frame of the
\* suspended repeat_test as it was; when a repeat_test returns, the active
\* frame is the one that was active when it was called, none for the
\* outermost.
C18_NestedRuns ==
    /\ [](/\ (stack # <<>> /\ pc = "loop" /\ runs = <<>>) =>
                /\ frame = [triggered |-> 0, count |-> 0, simulate |-> AllSet]
                /\ active = "inner" /\ old = "frame"
          /\ (stack # <<>> /\ pc = "returned") =>
                /\ runs = RunAlone(fn.t).runs
                /\ ok = RunAlone(fn.t).ok
          /\ pc = "returned" =>
                active = (IF stack = <<>> THEN "NULL" ELSE "frame")
          /\ pc \notin {"abort", "terminated"})
    /\ [][(stack # <<>> /\ stack' # <<>>) => stack'[1].frame = stack[1].frame]_vars

\* The outer function goes on after the repeat_test it called on fourth
\* returned success: its own two calls are still counted in its frame,
\* which is the active one again
C18_Witness ==
    /\ pc = "exec" /\ stack = <<>>
    /\ fn = [kind |-> "outer", t |-> fourth, n |-> 2]
    /\ outs = <<0, 0, 3>>
    /\ frame.count = 2
    /\ Len(runs) = 2
    /\ active = "frame"
\* C19: a simulate_failure call of a thread that has no active frame
\* returns 0 (do not fail) and changes nothing of the harness, the frame
\* left by an earlier repeat_test included, however many calls were made.
C19_NoFrameNoFailure ==
    [][(active = "NULL" /\ outside' # outside) =>
          /\ outside' = Append(outside, 0)
          /\ UNCHANGED <<frame, active, old, pc, fn, outs, runs, ok, stack>>]_vars

\* MaxCalls calls were made outside repeat_test, the last after a
\* repeat_test that ran the function twice and left set bits in its frame
C19_Witness ==
    /\ pc = "returned"
    /\ active = "NULL"
    /\ outside = [k \in 1..MaxCalls |-> 0]
    /\ Len(runs) >= 2
    /\ frame.count > 0
    /\ getbit(frame.simulate, frame.count) = 1
\* C20: within one execution the call counter of the frame never exceeds
\* MAX_RECURSION and no bit at index MAX_RECURSION or above is read: a
\* call made with the counter at the ceiling does not return, so an
\* execution is given at most MAX_RECURSION results.
C20_CeilingEndsProcess ==
    /\ frame.count <= MAX_RECURSION
    /\ Len(outs) <= MAX_RECURSION
    /\ pc = "exec" => Len(outs) = frame.count

\* Where WIN32 is defined the call made at the ceiling has returned to the
\* test function, with the counter left at MAX_RECURSION
C20_Witness ==
    /\ win32
    /\ pc = "exec"
    /\ frame.count = MAX_RECURSION
    /\ Len(outs) = MAX_RECURSION + 1
----------------------------------------------------------------------------
(* Claims about the faulty allocator *)

\* The call recorded in flast' was made by this step
FaultyCall == flast'.seq # flast.seq

\* This step asked simulate_failure () once: one more call is counted in
\* the active frame and one more result was given to the test function,
\* the bit of the frame at the old counter
ConsultedOnce ==
    /\ frame'.count = frame.count + 1
    /\ outs' = Append(outs, getbit(frame.simulate, frame.count))

\* C21: a grab or resize on the faulty allocator asks simulate_failure
\* once; on fail it returns NULL and the system heap is not called, so a
\* block being resized stays as it was; otherwise the call is the system's
\* malloc or realloc.  A release asks nothing: the frame and the results
\* of the execution are unchanged and the block is freed.
C21_FaultyConsultsOnce ==
    [][FaultyCall =>
         /\ flast'.op \in {"grab", "resize"} =>
               /\ ConsultedOnce
               /\ outs'[Len(outs')] = 1 =>
                     /\ flast'.res = NULL
                     /\ flast'.sys = "none"
                     /\ heap' = heap
               /\ (outs'[Len(outs')] = 0 /\ flast'.op = "grab") =>
                     /\ flast'.sys = "malloc"
                     /\ \E q \in FreeBlocks(heap) \cup {NULL} :
                           /\ flast'.res = q
                           /\ heap' = system_allocate_memory(heap, flast'.n, q).heap
               /\ (outs'[Len(outs')] = 0 /\ flast'.op = "resize") =>
                     /\ flast'.sys = "realloc"
                     /\ \E q \in FreeBlocks(heap) \cup {flast'.p, NULL} :
                           /\ flast'.res = q
                           /\ heap' = system_resize_memory(heap, flast'.p,
                                                           flast'.n, q).heap
         /\ flast'.op = "release" =>
               /\ UNCHANGED harnessVars
               /\ flast'.sys = "free"
               /\ heap' = [heap EXCEPT ![flast'.p] = 0]]_vars

\* The second call of an execution was a resize that was made to fail: the
\* block it was given is still allocated with its size
C21_Witness ==
    /\ pc = "exec"
    /\ outs = <<0, 1>>
    /\ frame.count = 2 /\ frame.triggered = 1
    /\ flast.op = "resize" /\ flast.res = NULL /\ flast.sys = "none"
    /\ flast.n = 2
    /\ heap[flast.p] = 1
\* A step of thread t: something of t other than its frame changes
StepOf(t) == \E k \in {"pc", "outs", "outside"} : th'[t][k] # th[t][k]

\* C22: a frame is read and changed only by the steps of the thread whose
\* repeat_test installed it: the frame pointer of a thread is none or its
\* own frame, a step of one thread leaves the frame of the other as it
\* was, and each of two repeat_test running at the same time makes the
\* executions it makes alone and returns their result.
C22_FramesNotShared ==
    /\ [](\A t \in Threads :
            /\ th[t].active \in {NoFrame, t}
            /\ th[t].pc = "returned" =>
                  /\ th[t].runs = RunAlone(th[t].fn.t).runs
                  /\ th[t].ok = RunAlone(th[t].fn.t).ok
            /\ th[t].pc # "abort")
    /\ [][\A t, u \in Threads :
            (t # u /\ StepOf(t)) => th'[u].frame = th[u].frame]_vars

\* Both threads are inside an execution of their test functions, each
\* after a simulated failure of its own, in their second executions
C22_Witness ==
    /\ th[1].pc = "exec" /\ th[2].pc = "exec"
    /\ th[1].fn.t = fourth /\ th[2].fn.t = second
    /\ Len(th[1].runs) = 1 /\ Len(th[2].runs) = 1
    /\ th[1].outs = <<0>>
    /\ th[2].outs = <<0>>
\* The thread started by the main thread has not called repeat_test yet,
\* and the main thread was inside an execution, with an active frame, when
\* it started the thread
StartedUnderFrame ==
    /\ th[2].pc = "idle"
    /\ th[2].born.at = "exec"
    /\ th[2].born.fp # NoFrame

C24_ReleaseClearsFlagOnly ==
    [][(calls' = calls + 1 /\ last'.op = "release") =>
          LET node == last'.p - HeaderSize
              w == ReadWord(mem, node)
              nodes == NodeWalk(mem, size, 0)
          IN
          /\ w % 2 = 1
          /\ ReadWord(mem', node) = SizeBits(w)
          /\ start' = (IF node < start THEN node ELSE start)
          /\ NodeWalk(mem', size, 0) = nodes
          /\ \A k \in 1..Len(nodes) :
                nodes[k] # node => ReadWord(mem', nodes[k]) = ReadWord(mem, nodes[k])
          /\ \A k \in DOMAIN mem :
                \/ mem'[k] = mem[k]
                \/ k * HeaderSize = node
                \/ /\ ~ndebug
                   /\ k * HeaderSize >= last'.p
                   /\ k * HeaderSize < last'.p + SizeBits(w) - HeaderSize]_vars

\* A release has moved the start cursor back to its node, and the node
\* after the released one is free and still a node of its own
C24_Witness ==
    /\ last.op = "release"
    /\ start = last.p - HeaderSize
    /\ last.from > start
    /\ LET next == last.p + Usable(mem, last.p) IN
          /\ InBuffer(size, next)
          /\ is_free(mem, next)
          /\ next + SizeBits(ReadWord(mem, next)) < size
\* A call of static_release_memory on a pointer the caller does not hold
\* has been made in this step
MisusedRelease ==
    /\ calls' = calls + 1
    /\ last'.op \in {"release", "abort"}
    /\ last'.p # NULL
    /\ last'.p \notin live

\* C25: a release of a pointer whose node header is not marked allocated
\* ends the process in an assertion before anything of the arena has
\* changed, the second of two releases of the same pointer included.
C25_FreedReleaseIsFatal ==
    [][MisusedRelease =>
          /\ last'.op = "abort"
          /\ UNCHANGED <<mem, start, live>>]_vars

\* What holds of such a release: with assertions it ends the process with
\* the arena unchanged; without them it returns, no word of the buffer
\* changes and the start cursor moves back to the node if it was after it.
C25_FreedReleaseByBuild ==
    [][MisusedRelease =>
          /\ ~ndebug => last'.op = "abort" /\ UNCHANGED <<mem, start, live>>
          /\ ndebug =>
                /\ last'.op = "release"
                /\ UNCHANGED <<mem, live>>
                /\ start' = (IF last'.p - HeaderSize < start
                             THEN last'.p - HeaderSize ELSE start)]_vars

\* On a build without assertions the region of the first grab has been
\* released twice in a row and the second release has returned
C25_Witness ==
    /\ ndebug
    /\ calls = 3
    /\ live = {}
    /\ last.op = "release" /\ last.p = HeaderSize
    /\ ReadWord(mem, 0) = 2 * HeaderSize
----------------------------------------------------------------------------
(* Claims about the list of allocators *)

\* The objects met by following next from a up to tail
RECURSIVE Chain(_, _, _)
Chain(nd, a, fuel) ==
    IF a \notin Objects \/ a = "tail" \/ fuel = 0 THEN <<>>
    ELSE <<a>> \o Chain(nd, nd[a].next, fuel - 1)

\* The allocators of the list, from head to tail
Registered ==
    IF reg.initialized = 0 THEN <<>>
    ELSE Chain(reg.node, reg.node["head"].next, Cardinality(Objects))

\* No two allocators of the sequence have the same type
OnePerType(sq) ==
    \A i, j \in 1..Len(sq) :
        i # j => reg.node[sq[i]].type # reg.node[sq[j]].type

Reverse(sq) == [i \in 1..Len(sq) |-> sq[Len(sq) + 1 - i]]

Elements(sq) == {sq[i] : i \in 1..Len(sq)}

\* head, the allocators of the list and tail are linked both ways, with
\* nothing before head and nothing after tail
WellLinked ==
    LET c == <<"head">> \o Registered \o <<"tail">> IN
    /\ reg.node["head"].prev = "NULL"
    /\ reg.node["tail"].next = "NULL"
    /\ \A i \in 1..(Len(c) - 1) :
          /\ reg.node[c[i]].next = c[i + 1]
          /\ reg.node[c[i + 1]].prev = c[i]
    /\ Cardinality(Elements(c)) = Len(c)

\* A call of new_allocator or delete_allocator has been made in this step
RegistryCall(op) ==
    /\ reg'.ops = reg.ops + 1
    /\ reg'.last.op = op
    /\ \A t \in Callers : reg'.call[t].pc = "idle"

\* C28: the list is linked both ways from head to tail and holds the
\* allocators that get_allocator constructed and nobody deleted, in that
\* order; new_allocator returns an object that is neither in the list nor
\* held from an earlier new_allocator, and changes no object of the list;
\* delete_allocator (NULL) changes nothing; delete_allocator of another
\* allocator takes it out of the list, whose other objects stay linked,
\* and destroys it.
C28_ListHoldsConstructed ==
    /\ [](/\ reg.phase # "crash"
          /\ (reg.phase = "run" /\ reg.initialized # 0) =>
                /\ WellLinked
                /\ Registered = reg.built)
    /\ [][(RegistryCall("new") /\ reg'.last.res # "NULL") =>
            /\ reg'.last.res \notin Elements(Registered) \cup reg.owned
            /\ ~reg.node[reg'.last.res].made
            /\ \A o \in Objects \ {reg'.last.res} : reg'.node[o] = reg.node[o]
            /\ reg'.built = reg.built]_vars
    /\ [][(RegistryCall("delete") /\ reg'.last.arg = "NULL") =>
            reg'.node = reg.node /\ reg'.built = reg.built]_vars
    /\ [][(RegistryCall("delete") /\ reg'.last.arg # "NULL") =>
            /\ reg'.built = Without(reg.built, reg'.last.arg)
            /\ ~reg'.node[reg'.last.arg].made]_vars

\* new_allocator (faulty_allocator) has returned the singleton that
\* get_allocator had put in the list: its next and prev are null while
\* tail.prev still points to it
C28_Witness ==
    /\ reg.last = [op |-> "new", arg |-> "faulty", res |-> "singleton"]
    /\ "singleton" \in Elements(reg.built)
    /\ reg.node["singleton"].next = "NULL"
    /\ reg.node["tail"].prev = "singleton"
----------------------------------------------------------------------------
(* Claims about the memory functions and the fixtures *)

\* The last call was one of allocate_memory, resize_memory, free_memory
MemoryCalled == fx.last.op \in {"allocate", "resize", "free"}

\* C29: the wrappers never call grab or resize of an allocator with size
\* 0 and never call release or resize with a null pointer: an allocation
\* of 0 bytes returns null without a call, a resize of null to n > 0 is
\* grab (n), a resize of p to 0 releases p and returns null, a resize of
\* null to 0 returns null without a call, and a release of null calls
\* nothing; a call that reaches no function of the allocator changes no
\* block.
C29_WrappersGuardEdges ==
    /\ [](MemoryCalled =>
            LET l == fx.last IN
            /\ l.fn \in {"grab", "resize"} => l.fa # 0
            /\ l.fn \in {"release", "resize"} => l.fp # NULL
            /\ l.op = "allocate" =>
                  IF l.n = 0 THEN l.fn = "none" /\ l.res = NULL
                  ELSE l.fn = "grab" /\ l.fa = l.n
            /\ l.op = "resize" =>
                  IF l.p = NULL
                  THEN IF l.n = 0 THEN l.fn = "none" /\ l.res = NULL
                       ELSE l.fn = "grab" /\ l.fa = l.n
                  ELSE IF l.n = 0
                       THEN /\ l.fn = "release" /\ l.fp = l.p
                            /\ l.res = NULL /\ heap[l.p] = 0
                       ELSE l.fn = "resize" /\ l.fp = l.p /\ l.fa = l.n
            /\ l.op = "free" =>
                  IF l.p = NULL THEN l.fn = "none"
                  ELSE l.fn = "release" /\ l.fp = l.p /\ heap[l.p] = 0)
    /\ [][(fx'.ops = fx.ops + 1 /\ fx'.last.op # "set" /\ fx'.last.fn = "none")
            => heap' = heap]_vars

\* A block of the static allocator has been resized to 0 bytes through
\* resize_memory: release was called on it and null returned
C29_Witness ==
    /\ fx.last.op = "resize"
    /\ fx.last.p # NULL /\ fx.last.n = 0
    /\ fx.last.fn = "release"
    /\ fx.last.type = "static"
    /\ heap[fx.last.p] = 0

\* The fixture that get_fixture is to return in thread t
FixtureOf(t) == IF fx.set[t] = "NULL" THEN "default_fixture" ELSE fx.set[t]

\* C30: in a thread that has set no fixture get_fixture returns the
\* default fixture, and after set_fixture (f) it returns f until the
\* thread sets another; a call of allocate_memory, resize_memory or
\* free_memory goes to the allocator of the fixture that is the active
\* one of the calling thread when the call is made.
C30_ActiveFixtureDispatch ==
    /\ \A t \in MemoryThreads :
          (fx.threads \/ t = 1) => get_fixture(fx, t) = FixtureOf(t)
    /\ MemoryCalled =>
          /\ fx.last.fixture = FixtureOf(fx.last.t)
          /\ fx.last.fixture = "default_fixture" => fx.last.type = "default"
          /\ fx.last.fixture = "test_fixture" => fx.last.type = "faulty"
          /\ fx.last.fixture = "my_fixture" => fx.last.type = "static"

\* The second thread, whose fixture is test_fixture while the first has
\* my_fixture, has allocated a block from the faulty allocator
C30_Witness ==
    /\ fx.threads
    /\ fx.set[1] = "my_fixture"
    /\ fx.set[2] = "test_fixture"
    /\ fx.last.op = "allocate" /\ fx.last.t = 2
    /\ fx.last.type = "faulty"
    /\ fx.last.res # NULL

\* The allocator type that the memory functions use in thread t
TypeOf(t) == get_default_allocator(fx, get_fixture(fx, t))

\* Thread t has just called set_fixture
FixtureSetBy(t) ==
    /\ fx'.ops = fx.ops + 1
    /\ fx'.last.op = "set"
    /\ fx'.last.t = t

\* C31: a thread started with start_thread begins with its own copy of
\* the fixture that was active in the creating thread when start_thread
\* was called and keeps it until it sets a fixture itself, whatever the
\* creator sets later; set_fixture in one running thread never changes
\* the allocator of another running thread, and where the thread function
\* runs inside start_thread the creator finds its fixture again when the
\* function has returned.
C31_ChildInheritsCopy ==
    /\ []((fx.state[2] = "running" /\ fx.set[2] = "thread_fixture") =>
            /\ get_fixture(fx, 2) = "thread_fixture"
            /\ get_fixture(fx, 2) # fx.born.fp
            /\ TypeOf(2) = fx.born.type)
    /\ [][\A t \in MemoryThreads : \A u \in MemoryThreads \ {t} :
            (FixtureSetBy(t) /\ fx.state[u] = "running" /\ fx.threads) =>
                /\ get_fixture(fx', u) = get_fixture(fx, u)
                /\ TypeOf(u)' = TypeOf(u)]_vars
    /\ [][(fx.state[2] = "running" /\ fx'.state[2] = "done" /\ ~fx.threads)
            => /\ get_fixture(fx', 1) = fx.born.fp
               /\ TypeOf(1)' = fx.born.type]_vars

\* The creator had the fixture of the static allocator when it started
\* the thread and has set the test fixture since; the started thread
\* runs and its last allocation went to the static allocator
C31_Witness ==
    /\ fx.threads
    /\ fx.state[2] = "running"
    /\ fx.set[2] = "thread_fixture"
    /\ fx.born.fp = "my_fixture"
    /\ get_fixture(fx, 1) = "test_fixture"
    /\ fx.last.op = "allocate" /\ fx.last.t = 2
    /\ fx.last.fn = "grab" /\ fx.last.type = "static"

\* Thread t is between enter_critical and the matching leave_critical
InCritical(t) == cs.t[t].depth > 0

\* The threads that have read the counter
Readers == {t \in CsThreads : cs.t[t].value # NULL}

\* Every thread has returned from its thread function
AllDone == \A t \in CsThreads : CsStepOf(t) = "done"

\* C32: at most one thread at a time is between enter_critical and the
\* matching leave_critical, so the threads that read and increment the
\* shared counter inside the critical section read different values, and
\* when all N of them have returned the values read are exactly 0..N-1
\* and the counter is N.
C32_OneThreadInside ==
    /\ \A t \in CsThreads : \A u \in CsThreads \ {t} :
          ~(InCritical(t) /\ InCritical(u))
    /\ \A t \in Readers : \A u \in Readers \ {t} :
          cs.t[t].value # cs.t[u].value
    /\ AllDone =>
          /\ {cs.t[t].value : t \in Readers} = 0..(Cardinality(Readers) - 1)
          /\ cs.counter = Cardinality(Readers)

\* On the build with threads the three threads of increments have
\* returned and the thread started last read 0: it came first
C32_Witness ==
    /\ cs.threads
    /\ AllDone
    /\ \A t \in CsThreads : cs.t[t].prog = "increments"
    /\ cs.t[3].value = 0 /\ cs.t[1].value = 2
    /\ cs.counter = 3

\* C33: a thread that holds the critical section enters it again without
\* waiting; the mutex counts the calls, so that it is held by a thread
\* exactly while that thread has called enter_critical more often than
\* leave_critical and no other thread can enter before; a resize on its
\* relocation path, where grab and release enter the critical section
\* inside the critical section, never waits for itself, and as long as
\* a thread has not returned some thread can make a step.
C33_ReentrantSection ==
    /\ \A t \in CsThreads :
          (CsStepOf(t) = "enter" /\ InCritical(t) /\ CsCanRun(t)) =>
              ENABLED EnterCritical(t)
    /\ cs.threads =>
          \A t \in CsThreads :
              /\ InCritical(t) <=>
                    (cs.mutex.owner = t /\ cs.mutex.count = cs.t[t].depth)
              /\ \A u \in CsThreads \ {t} :
                    (InCritical(t) /\ CsStepOf(u) = "enter") =>
                        ~ENABLED EnterCritical(u)
    /\ ~AllDone => ENABLED NextCritical

\* On the build with threads a thread on the relocation path is inside
\* release, two levels deep, while another thread waits to enter
C33_Witness ==
    /\ cs.threads
    /\ \E t \in CsThreads :
          /\ cs.t[t].prog = "relocate"
          /\ cs.t[t].pos = 5
          /\ cs.t[t].depth = 2
          /\ cs.mutex.count = 2
          /\ \E u \in CsThreads \ {t} :
                CsStepOf(u) = "enter" /\ ~ENABLED EnterCritical(u)

\* The position of f in the sequence sq of functions, 0 if it is not there
PositionIn(sq, f) ==
    IF \E i \in 1..Len(sq) : sq[i] = f
    THEN CHOOSE i \in 1..Len(sq) : sq[i] = f
    ELSE 0

\* The priority that f is registered with
PriorityOf(f) ==
    LET i == CHOOSE k \in 1..Len(xh.handlers) : xh.handlers[k].f = f
    IN xh.handlers[i].priority

\* The functions in sq come by priority from the highest to the lowest,
\* and of two with the same priority the one registered later comes first
ByPriority(sq) ==
    \A i \in 1..Len(sq) : \A j \in (i + 1)..Len(sq) :
        /\ PriorityOf(sq[i]) >= PriorityOf(sq[j])
        /\ PriorityOf(sq[i]) = PriorityOf(sq[j]) =>
              PositionIn(xh.order, sq[i]) > PositionIn(xh.order, sq[j])

\* The process has exited and every function registered with atexit has
\* run
Exited == xh.phase = "exit" /\ xh.pending = 0

\* C34: whatever one thread registers with exit_handler and in whatever
\* order, the table is ordered by priority from the highest to the
\* lowest with the handler registered later first among those of the
\* same priority, and at exit the registered functions are invoked in
\* that order, each once.
C34_InvokedByPriority ==
    /\ ByPriority([i \in 1..Len(xh.handlers) |-> xh.handlers[i].f])
    /\ {xh.handlers[i].f : i \in 1..Len(xh.handlers)}
          = {xh.order[i] : i \in 1..Len(xh.order)}
    /\ Len(xh.handlers) = Len(xh.order)
    /\ Exited =>
          /\ ByPriority(xh.invoked)
          /\ xh.atexit = 1 =>
                xh.invoked = [i \in 1..Len(xh.handlers) |-> xh.handlers[i].f]

\* The registrations of t-exit-handler.c: priorities 0, 0, 1, 99999 and
\* 100 in this order, and the functions were invoked in the order 99999,
\* 100, 1, the second 0, the first 0
C34_Witness ==
    /\ Exited
    /\ xh.order = <<"exit1", "exit2", "exit3", "exit4", "exit5">>
    /\ PriorityOf("exit3") = 1
    /\ xh.invoked = <<"exit4", "exit5", "exit3", "exit2", "exit1">>

\* Thread t returns from add_exit_handler, called with a function that
\* is registered
DuplicateCall(t) ==
    /\ xh.call[t].pc = "add"
    /\ xh'.call[t].pc = "idle"
    /\ is_registered(xh.handlers, xh.call[t].f)

\* C35: exit_handler called with a function that is registered, in any
\* state of the table and with any priority, returns zero and leaves the
\* entries of the table, their order and their count as they were, and
\* no function is in the table twice.
C35_DuplicateReturnsZero ==
    /\ [](\A i \in 1..Len(xh.handlers) : \A j \in 1..Len(xh.handlers) :
            xh.handlers[i].f = xh.handlers[j].f => i = j)
    /\ [][\A t \in ExitThreads :
            DuplicateCall(t) =>
                /\ xh'.call[t].ok = 0
                /\ xh'.phase = "running"
                /\ xh'.handlers = xh.handlers]_vars

\* The same as long as the table is not full
C35_DuplicateRejectedBelowLimit ==
    /\ [](\A i \in 1..Len(xh.handlers) : \A j \in 1..Len(xh.handlers) :
            xh.handlers[i].f = xh.handlers[j].f => i = j)
    /\ [][\A t \in ExitThreads :
            (DuplicateCall(t) /\ (Len(xh.handlers) < T7_MAX_EXIT_HANDLERS
                                      \/ xh.build = "win32")) =>
                /\ xh'.call[t].ok = 0
                /\ xh'.phase = "running"
                /\ xh'.handlers = xh.handlers]_vars

\* The table is full and exit_handler was called with a function that is
\* in it: terminate () has aborted the process
C35_Witness ==
    /\ xh.phase = "aborted"
    /\ Len(xh.handlers) = T7_MAX_EXIT_HANDLERS
    /\ is_registered(xh.handlers, xh.call[1].f)

\* The number of times f was invoked at exit
Invocations(f) == Cardinality({i \in 1..Len(xh.invoked) : xh.invoked[i] = f})

\* C40: in every interleaving of the calls of exit_handler of two threads,
\* their first calls included, run_exit_handlers is registered with
\* atexit once, and every registered function is invoked once at exit.
C40_RegisteredOnce ==
    /\ xh.atexit <= 1
    /\ Exited =>
          \A i \in 1..Len(xh.handlers) : Invocations(xh.handlers[i].f) = 1

\* Both threads found initialized zero in their first calls:
\* run_exit_handlers was registered twice and the two registered
\* functions were invoked twice each at exit
C40_Witness ==
    /\ Exited
    /\ xh.atexit = 2
    /\ Len(xh.handlers) = 2
    /\ \A i \in 1..Len(xh.handlers) : Invocations(xh.handlers[i].f) = 2

\* The bits below the call counter (those consulted in the execution that
\* has ended) that are set
ConsultedSet == {k \in 0..(frame.count - 1) : getbit(frame.simulate, k) = 1}

\* The highest index in the set of indices ks
Highest(ks) == CHOOSE k \in ks : \A j \in ks : j <= k

\* C36: between two executions, after one that triggered a failure,
\* repeat_test clears the highest set bit among those consulted, sets every
\* bit above it up to MAX_RECURSION - 1 and leaves the bits below it as
\* they were; triggered and the call counter are zero when an execution
\* begins; a simulate_failure call changes no bit.
C36_VectorStep ==
    /\ [][(pc = "check" /\ pc' = "loop") =>
            LET i == Highest(ConsultedSet) IN
            /\ ConsultedSet # {}
            /\ getbit(frame.simulate, i) = 1
            /\ \A k \in 0..(MAX_RECURSION - 1) :
                  getbit(frame'.simulate, k) =
                      IF k < i THEN getbit(frame.simulate, k)
                      ELSE IF k = i THEN 0
                      ELSE 1]_vars
    /\ [][(pc = "loop" /\ pc' = "exec") =>
            frame'.triggered = 0 /\ frame'.count = 0]_vars
    /\ [][(pc = "exec" /\ outs' # outs) =>
            frame'.simulate = frame.simulate]_vars

\* An execution consulted three bits of which the first and the third
\* were set, and the vector for the next execution has the first set, the
\* second and the third clear and the fourth set
C36_Witness ==
    /\ pc = "loop"
    /\ runs # <<>>
    /\ runs[Len(runs)] = <<1, 0, 1>>
    /\ getbit(frame.simulate, 0) = 1
    /\ getbit(frame.simulate, 1) = 0
    /\ getbit(frame.simulate, 2) = 0
    /\ getbit(frame.simulate, 3) = 1

\* C39: when an execution has ended with triggered set, the call counter
\* is at least 1 and at most MAX_RECURSION and a bit below it is set, so
\* the search for the last failed call stops at an index from 0 to
\* MAX_RECURSION - 1 and reads no bit outside that range.
C39_SearchStaysInVector ==
    /\ (pc = "check" /\ frame.triggered # 0) =>
          /\ frame.count >= 1
          /\ frame.count <= MAX_RECURSION
          /\ ConsultedSet # {}
          /\ FindLast(frame.simulate, frame.count - 1) \in
                0..(MAX_RECURSION - 1)
    /\ pc # "abort"

\* An execution has ended with triggered set whose last two calls did not
\* fail: the search passes two clear bits and stops at bit 0
C39_Witness ==
    /\ pc = "check"
    /\ frame.triggered # 0
    /\ frame.count = 3
    /\ getbit(frame.simulate, 2) = 0
    /\ getbit(frame.simulate, 1) = 0
    /\ FindLast(frame.simulate, frame.count - 1) = 0

\* st designates the header of a node of the partition of m
AtNode(m, sz, st) ==
    LET nodes == NodeWalk(m, sz, 0) IN
    /\ st >= 0
    /\ st + HeaderSize <= sz
    /\ \E k \in 1..Len(nodes) : nodes[k] = st

\* The scan of static_grab_memory from node on, as grab_loop makes it:
\* start is at a node after every get_size that merged nodes
RECURSIVE ScanKeepsStart(_, _, _, _, _, _)
ScanKeepsStart(m, sz, st, node, new_size, fuel) ==
    IF fuel = 0 \/ ~InBuffer(sz, node) THEN TRUE
    ELSE
        LET free == is_free(m, node)
            g == IF free THEN get_size(m, sz, st, node)
                 ELSE [mem |-> m, start |-> st, res |-> 0, ok |-> TRUE]
        IN
        /\ AtNode(g.mem, sz, g.start)
        /\ IF ~g.ok \/ (free /\ new_size <= g.res) THEN TRUE
           ELSE IF ~get_successor_ok(g.mem, sz, node) THEN TRUE
           ELSE LET next == get_successor(g.mem, sz, node) IN
                IF next = g.start THEN TRUE
                ELSE ScanKeepsStart(g.mem, sz, g.start, next, new_size,
                                    fuel - 1)

\* C37: after every grab, release and resize the start cursor designates
\* the header of a node of the partition, inside the buffer and never
\* inside a node that has absorbed the one it designated; the same holds
\* after every merge that the scan of a grab makes on its way.
C37_StartAtNode ==
    /\ AtNode(mem, size, start)
    /\ \A n \in ReqSizes :
          ScanKeepsStart(mem, size, start, start, roundup(n), GrabFuel(size))

\* A scan that began at a node behind the first has merged that node into
\* the free node before it and allocated from the merged node: start is
\* at the head of the merged node
C37_Witness ==
    /\ last.op = "grab" /\ last.res # NULL
    /\ last.from > 0
    /\ start < last.from
    /\ last.from < start + SizeBits(ReadWord(mem, start))
    /\ AtNode(mem, size, start)

\* static_resize_memory (p, n) takes the relocation path: the node of p
\* and the free nodes that follow it do not hold roundup (n) bytes
Relocates(p, n) ==
    roundup(n) > MergeLoop(mem, size, p - HeaderSize,
                           SizeBits(ReadWord(mem, p - HeaderSize)))[1]

\* A build with the assertions whose copy_memory is memcpy
AssertingBuild == [debug |-> TRUE, win32 |-> FALSE, wild |-> 0]

\* C38: whenever static_resize_memory takes the relocation path the
\* usable size of the old region is at most n, so the assertion of
\* relocate_node holds, and the region that grab returns holds at least
\* the bytes that are copied; no resize that moved a region moved one
\* that was larger than asked for.
C38_RelocationCopiesOldSize ==
    /\ [](\A p \in live : \A n \in ReqSizes :
            Relocates(p, n) =>
                LET g == static_grab_memory(mem, size, start, n)
                    r == relocate_node(mem, size, start, AssertingBuild,
                                       p - HeaderSize, n)
                IN
                /\ Usable(mem, p) <= n
                /\ r.ok
                /\ g.res # NULL => Usable(g.mem, g.res) >= Usable(mem, p))
    /\ [][(calls' = calls + 1 /\ last'.op = "resize"
             /\ last'.res # NULL /\ last'.res # last'.p) =>
                /\ Relocates(last'.p, last'.n)
                /\ Usable(mem, last'.p) <= last'.n
                /\ Usable(mem', last'.res) >= Usable(mem, last'.p)]_vars

\* A resize has moved a region to another node
C38_Witness ==
    /\ last.op = "resize"
    /\ last.res # NULL
    /\ last.res # last.p
    /\ last.res \in live
    /\ Usable(mem, last.res) >= last.n

====
